---- MODULE Spec2Model ----
(***************************************************************************)
(* Model of the trust core of the auth server:                             *)
(*   - lib/auth/init.go : Init (CA bootstrap under the cluster lock,       *)
(*     cluster id / cluster name, legacy migration, periodic operations)   *)
(*     and, each on its own, migrateLegacyResources on data, the           *)
(*     Read*IdentityFromKeyPair functions and GenerateIdentity             *)
(*   - lib/auth/oidc.go : ValidateOIDCAuthCallback, createOIDCUser (the    *)
(*     expiry of provisioned users, certificate and session TTLs),         *)
(*     fetchGroups, getClaims with the GSuite group claims, and, on their  *)
(*     own, getOIDCClient and CreateOIDCAuthRequest                        *)
(* Each server process runs Init once against one shared backend; every    *)
(* backend operation of Init is one atomic step that either succeeds or    *)
(* fails with an error Init does not tolerate.                             *)
(***************************************************************************)
EXTENDS Integers, Sequences, FiniteSets, TLC

\* ------------------------------------------------------------------ bounds
NumProcs == 2
NumCalls == 2
NumTokens == 2
MaxTime == 4
MaxTTL == 3
\* the page limit of fetchGroups (its value is not part of this source tree)
MaxPages == 2
\* the number of OIDC clients an auth server builds
MaxClients == 3

Procs == 1..NumProcs
Calls == 1..NumCalls
Tokens == 1..NumTokens
Names == {"a", "b"}
CATypes == {"user", "host"}

\* ------------------------------------------------------- backend values
\* cluster configuration in the backend: absent, present with an empty
\* cluster id, or present with an id
Absent == <<"absent", 0>>
EmptyID == <<"empty", 0>>
LegacyID == <<"uuid", 0>>

\* uuid.New(): an id no other process generates
NewUUID(p) == <<"uuid", p>>

\* keys are pairs <<origin, process>>; a key generated by process p at a
\* generation site of Init is <<site, p>>, so that every generated key is new
NoKey == <<"none", 0>>
FreshKey(p, site) == <<site, p>>
LegacyKey(t) == <<"legacy-" \o t, 0>>
LegacyTLSKey(t) == <<"legacy-tls-" \o t, 0>>
PreKey(t) == <<"config-" \o t, 0>>
PreTLSKey(t) == <<"config-tls-" \o t, 0>>

\* a certificate authority record: the SSH signing key (NoKey: no record),
\* whether that key is an RSA key, and the private keys of its TLS key pairs
NoCA == [ssh |-> NoKey, rsa |-> TRUE, tls |-> <<>>]

\* InitConfig.Authorities: none, or one authority of the configured cluster
\* name: a user CA without TLS key pairs or a host CA with one
AuthChoices == {<<"none", FALSE>>, <<"user", FALSE>>, <<"host", TRUE>>}

PreConfigured(auth) ==
    [ssh |-> PreKey(auth[1]), rsa |-> TRUE,
     tls |-> IF auth[2] THEN <<PreTLSKey(auth[1])>> ELSE <<>>]

VARIABLES
    pc,          \* position of each process in Init
    cfgName,     \* cfg.ClusterName as configured
    effName,     \* cfg.ClusterName / asrv.clusterName after the override
    readID,      \* cluster id read by GetClusterConfig
    caLocal,     \* userCA / hostCA read by GetCertAuthority
    ret,         \* value Init returns: "pending", "server" or an error
    periodic,    \* runPeriodicOperations was started
    fault,       \* a backend operation of this Init failed with an error
                 \* Init does not tolerate
    migrated,    \* the legacy migration steps completed, in order
    lockHolder,  \* backend locks, by lock name (0: free)
    storedName,  \* cluster name in the backend ("": not set)
    clusterID,   \* cluster id of the stored cluster configuration
    adminRole,   \* default admin role: "absent", "nokube" or "kube"
    cas          \* certificate authorities by (cluster name, type)

bootVars == <<pc, cfgName, effName, readID, caLocal, ret, periodic, fault,
              migrated, lockHolder, storedName, clusterID, adminRole, cas>>

VARIABLES
    cpc,         \* position of each callback in ValidateOIDCAuthCallback
    query,       \* the callback's query parameters
    creq,        \* the OIDCAuthRequest the callback looked up
    prov,        \* what the provider answered: ID token and UserInfo claims
    claims,      \* the claims getClaims returned
    cres,        \* <<step, error>> the inner validation ended with
    cfault,      \* a backend or provider operation of the callback failed
    resp,        \* the OIDCAuthResponse under construction
    wrote,       \* what the callback has written: "user", "session", "cert"
    audit,       \* the login audit events the callback has emitted
    connector,   \* the OIDC connector
    reqState,    \* pending OIDC auth requests by state token
    reqFlags,    \* the flags of each created request
    gotBy,       \* the callback that obtained the request of a state token
    users,       \* the user named like the federated email
    sessions,    \* web sessions in the backend
    certs        \* certificates issued

oidcVars == <<cpc, query, creq, prov, claims, cres, cfault, resp, wrote, audit,
              connector, reqState, reqFlags, gotBy, users, sessions, certs>>

VARIABLES
    clock,       \* the clock of the auth server
    tident,      \* ExpiresAt of the federated identity
    tuser,       \* the user record provisioned from the identity
    tfetch,      \* the last GetUser by name: when, and its result
    tcert,       \* the last certificate request: when, and the TTL passed on
    tsess        \* the last web session: when it was created, the longest
                 \* session the roles allow, its expiry and the expiry of
                 \* its bearer token

timeVars == <<clock, tident, tuser, tfetch, tcert, tsess>>

VARIABLES
    gpc,         \* position of fetchGroups
    count,       \* fetchGroups: count
    hasNext,     \* fetchGroups: nextPageToken is not empty
    groups,      \* fetchGroups: groups collected
    served,      \* the pages the group API has served, in order
    gaudit,      \* truncation audit events emitted
    gret         \* what fetchGroups returned

groupVars == <<gpc, count, hasNext, groups, served, gaudit, gret>>

VARIABLES
    cin,         \* getClaims alone: what the provider and the group API answer
    cout,        \* getClaims alone: what it returned
    bin,         \* an identity bundle: key, SSH certificate, TLS certificate,
                 \* trust roots
    bid,         \* the IdentityID an identity is generated for
    bgen,        \* the bundle was generated for bid
    bout,        \* the last read of the bundle: the function and its result
    mpc,         \* migrateLegacyResources on its own: the step it is at and
                 \* the error it returned
    mrun,        \* the number of the run of the migration (0: none)
    backend,     \* the users, roles (name, logins), host CA names, remote and trusted
                 \* clusters and the admin role the migration works on
    dataDir,     \* the data directory: the legacy identity files of each
                 \* role and the identities in the process storage
    oidcClients, \* AuthServer.oidcClients: the cached client of each
                 \* connector name, with the configuration it was cached under
    built,       \* the number of OIDC clients built so far
    authRequests,\* the OIDC auth requests persisted, each with its TTL
    aout         \* the last call of getOIDCClient or CreateOIDCAuthRequest:
                 \* the connector, the derived configuration, and what the
                 \* call returned ("off": these functions are not called)

soloVars == <<cin, cout, bin, bid, bgen, bout, mpc, mrun, backend, dataDir,
              oidcClients, built, authRequests, aout>>

auxVars == <<timeVars, groupVars, soloVars>>

vars == <<bootVars, oidcVars, auxVars>>

\* ------------------------------------------------------------ initial state
\* a backend nobody has started on, or the backend of a cluster "a" created by
\* an earlier release: its authorities may lack TLS key pairs, its host key
\* may be a non-RSA key, its cluster configuration may be absent or have no
\* id, its admin role lacks kubernetes groups
LegacyCA(t, isRSA, hasTLS) ==
    [ssh |-> LegacyKey(t), rsa |-> isRSA,
     tls |-> IF hasTLS THEN <<LegacyTLSKey(t)>> ELSE <<>>]

LegacyBackends ==
    {[id |-> Absent,   user |-> LegacyCA("user", TRUE, FALSE), host |-> LegacyCA("host", TRUE, FALSE)],
     [id |-> EmptyID,  user |-> LegacyCA("user", TRUE, FALSE), host |-> LegacyCA("host", FALSE, FALSE)],
     [id |-> LegacyID, user |-> LegacyCA("user", TRUE, TRUE),  host |-> LegacyCA("host", TRUE, FALSE)],
     [id |-> LegacyID, user |-> LegacyCA("user", TRUE, FALSE), host |-> LegacyCA("host", TRUE, TRUE)],
     [id |-> LegacyID, user |-> LegacyCA("user", TRUE, TRUE),  host |-> LegacyCA("host", TRUE, TRUE)]}

EmptyCAs == [k \in Names \X CATypes |-> NoCA]

InitBackend ==
    \/ /\ storedName = ""
       /\ clusterID = Absent
       /\ adminRole = "absent"
       /\ cas = EmptyCAs
    \/ /\ storedName = "a"
       /\ adminRole = "nokube"
       /\ \E b \in LegacyBackends :
             /\ clusterID = b.id
             /\ cas = [EmptyCAs EXCEPT ![<<"a", "user">>] = b.user,
                                       ![<<"a", "host">>] = b.host]

InitProcs ==
    /\ pc = [p \in Procs |-> "idle"]
    /\ cfgName = [p \in Procs |-> ""]
    /\ effName = [p \in Procs |-> ""]
    /\ readID = [p \in Procs |-> Absent]
    /\ caLocal = [p \in Procs |-> NoCA]
    /\ ret = [p \in Procs |-> "pending"]
    /\ periodic = [p \in Procs |-> FALSE]
    /\ fault = [p \in Procs |-> FALSE]
    /\ migrated = [p \in Procs |-> <<>>]
    /\ lockHolder = [n \in Names |-> 0]

\* ------------------------------------------------- OIDC values and state
\* a claim set maps claim names to values; NilClaims is the nil map
NilClaims == <<>>

HasClaim(c, k) == k \in DOMAIN c

\* the value of an acr claim: a string (kind "string", its text in str), a
\* JSON object (kind "object") or anything else (kind "number"); the object
\* has no member named values (vkind "absent"), a list of values (vkind
\* "list": each element is a string or not, with its text) or something else
\* under that name (vkind "string")
ACRClaim(kind, str, vkind, list) ==
    [kind |-> kind, str |-> str, values |-> [kind |-> vkind, list |-> list]]

\* what the ID token of the provider can carry
IDTokenClaimSets ==
    {("sub" :> "A") @@ ("email" :> "foo@example.com"),
     ("sub" :> "A") @@ ("email" :> "foo@example.com")
        @@ ("acr" :> ACRClaim("string", "loa2", "absent", <<>>)),
     ("sub" :> "A") @@ ("email" :> "bar@example.com")
        @@ ("acr" :> ACRClaim("string", "loa1", "absent", <<>>)),
     ("email" :> "foo@example.com")}

\* what the UserInfo endpoint of the provider can answer
UserInfoClaimSets ==
    {("sub" :> "A") @@ ("email" :> "other@example.com") @@ ("name" :> "foo"),
     ("sub" :> "B") @@ ("email" :> "foo@example.com"),
     ("name" :> "foo")}

\* the provider's answers to one callback: the token exchange and ID token
\* verification ("ok" or "error"), the ID token claims, the UserInfo fetch
\* ("ok", "NotFound": no endpoint, or "error") and the UserInfo claims;
\* whether the connector is a GSuite connector with the groups scope, and
\* then the answer of the group API ("ok", "NotFound" or "error") and the
\* groups claim fetchGroups returns
NoProv == [exch |-> "unasked", id |-> NilClaims, uiKind |-> "unasked", ui |-> NilClaims,
           gsuite |-> FALSE, gsKind |-> "unasked", gs |-> NilClaims]

\* the answers to the callbacks: their connectors are not GSuite connectors
ProviderAnswers ==
    {[NoProv EXCEPT !.exch = "error"]}
    \cup {[NoProv EXCEPT !.exch = "ok", !.id = i, !.uiKind = k] :
             i \in IDTokenClaimSets, k \in {"NotFound", "error"}}
    \cup {[NoProv EXCEPT !.exch = "ok", !.id = i, !.uiKind = "ok", !.ui = u] :
             i \in IDTokenClaimSets, u \in UserInfoClaimSets}

\* no query parameters
NoQuery == [error |-> FALSE, code |-> FALSE, state |-> 0]

\* the zero OIDCAuthRequest
NoReq == [token |-> 0, checkUser |-> FALSE, createWebSession |-> FALSE,
          publicKey |-> FALSE]

\* the requests clients make: an identity check only (the other flags are
\* set and must be ignored), a web login, a console login, or a login that
\* asks for both a session and certificates
RequestFlags ==
    {[checkUser |-> FALSE, createWebSession |-> TRUE, publicKey |-> TRUE],
     [checkUser |-> TRUE, createWebSession |-> TRUE, publicKey |-> FALSE],
     [checkUser |-> TRUE, createWebSession |-> FALSE, publicKey |-> TRUE],
     [checkUser |-> TRUE, createWebSession |-> TRUE, publicKey |-> TRUE]}

NoFlags == [checkUser |-> FALSE, createWebSession |-> FALSE, publicKey |-> FALSE]

NoResp == [username |-> "", identity |-> "", session |-> FALSE, cert |-> FALSE,
           hostSigners |-> FALSE]

\* a user record of the backend: absent, a local user (no connector
\* reference) or a user created by the connector
UserStates == {"absent", "local", "connector"}

Emails == {"foo@example.com", "bar@example.com"}

\* connectors: with or without claim-to-role mappings, with or without ACR,
\* of the provider NetIQ or of any other provider
Connectors ==
    {[mappings |-> FALSE, acr |-> "", provider |-> ""],
     [mappings |-> TRUE, acr |-> "", provider |-> ""],
     [mappings |-> TRUE, acr |-> "loa2", provider |-> ""],
     [mappings |-> TRUE, acr |-> "loa2", provider |-> "netiq"]}

InitCalls ==
    /\ cpc = [c \in Calls |-> "idle"]
    /\ query = [c \in Calls |-> NoQuery]
    /\ creq = [c \in Calls |-> NoReq]
    /\ prov = [c \in Calls |-> NoProv]
    /\ claims = [c \in Calls |-> NilClaims]
    /\ cres = [c \in Calls |-> <<"", "pending">>]
    /\ cfault = [c \in Calls |-> FALSE]
    /\ resp = [c \in Calls |-> NoResp]
    /\ wrote = [c \in Calls |-> {}]
    /\ audit = [c \in Calls |-> <<>>]
    /\ reqState = [t \in Tokens |-> "unused"]
    /\ reqFlags = [t \in Tokens |-> NoFlags]
    /\ gotBy = [t \in Tokens |-> 0]
    /\ sessions = {}
    /\ certs = {}

\* no OIDC activity: the state of the OIDC part while servers bootstrap
OIDCIdle ==
    /\ InitCalls
    /\ connector = [mappings |-> FALSE, acr |-> "", provider |-> ""]
    /\ users = [e \in Emails |-> "absent"]

\* no bootstrap activity: the backend of a bootstrapped cluster "a"
BootDone ==
    /\ InitProcs
    /\ storedName = "a"
    /\ clusterID = LegacyID
    /\ adminRole = "kube"
    /\ cas = [EmptyCAs EXCEPT ![<<"a", "user">>] = LegacyCA("user", TRUE, TRUE),
                              ![<<"a", "host">>] = LegacyCA("host", TRUE, TRUE)]

\* no user provisioned, nothing fetched, no certificate requested
NoUser == [present |-> FALSE, at |-> 0, expires |-> 0]

NoFetch == [done |-> FALSE, at |-> 0, res |-> ""]

NoCertRequest == [done |-> FALSE, at |-> 0, req |-> 0, ttl |-> 0]

TimeIdle ==
    /\ clock = 0
    /\ tident = 0
    /\ tuser = NoUser
    /\ tfetch = NoFetch
    /\ tcert = NoCertRequest
    /\ tsess = [done |-> FALSE, at |-> 0, roleMax |-> 0, expires |-> 0, bearer |-> 0]

\* fetchGroups has not been called
GroupsIdle ==
    /\ gpc = "idle"
    /\ count = 0
    /\ hasNext = FALSE
    /\ groups = <<>>
    /\ served = <<>>
    /\ gaudit = <<>>
    /\ gret = [claims |-> NilClaims, err |-> "pending"]

\* no Identity (nil). Its fields give the shape of an Identity and of the
\* buffers it is read from: the private key is "" (empty), "garbage" or the
\* name of a key; an SSH certificate buffer is empty, garbage, a bare public
\* key ("pubkey") or a certificate ("cert") for a key, with its valid
\* principals and its extensions; a TLS certificate buffer is empty, garbage
\* or a certificate for a key with its subject and the organizations of its
\* issuer; the trust roots are a list of buffers ("": empty, "garbage" or the
\* name of a CA certificate)
NoIdentity ==
    [ID |-> [Role |-> "", HostUUID |-> "", NodeName |-> ""],
     ClusterName |-> "",
     KeyBytes |-> "",
     CertBytes |-> [kind |-> "empty", key |-> "", principals |-> <<>>, ext |-> <<>>],
     TLSCertBytes |-> [kind |-> "empty", key |-> "", subject |-> "", org |-> <<>>],
     TLSCACertsBytes |-> <<>>,
     KeySigner |-> ""]

\* no OIDC client (nil); a client is known by the order in which it was
\* built and carries the configuration it was built from
NoOIDCClient ==
    [id |-> 0, config |-> [RedirectURL |-> "", ID |-> "", Secret |-> "", Scope |-> <<>>]]

\* no call of getOIDCClient or CreateOIDCAuthRequest: no connector, nothing
\* returned (no client, no request: state token 0, empty redirect URL)
NoCall ==
    [fn |-> "off",
     conn |-> [name |-> "", redirect |-> "", id |-> "", secret |-> "", scope |-> <<>>,
               acr |-> ""],
     config |-> NoOIDCClient.config,
     client |-> NoOIDCClient,
     req |-> [StateToken |-> 0,
              RedirectURL |-> [state |-> 0, access_type |-> "", prompt |-> "",
                               acr_values |-> <<>>]],
     err |-> ""]

\* no function is applied on its own
SoloIdle ==
    /\ cin = NoProv
    /\ cout = [done |-> FALSE, claims |-> NilClaims, err |-> "", fetched |-> FALSE]
    /\ bin = [key |-> "", cert |-> NoIdentity.CertBytes, tls |-> NoIdentity.TLSCertBytes,
              cas |-> <<>>]
    /\ bid = NoIdentity.ID
    /\ bgen = FALSE
    /\ bout = [fn |-> "", err |-> "", id |-> NoIdentity]
    /\ mpc = [step |-> "idle", err |-> ""]
    /\ mrun = 0
    /\ backend = [users |-> <<>>, roles |-> {}, hostCAs |-> {}, remotes |-> {},
                  trusted |-> {}, kube |-> "absent"]
    /\ dataDir = [legacy |-> <<>>, valid |-> TRUE, stored |-> <<>>]
    /\ oidcClients = <<>>
    /\ built = 0
    /\ authRequests = {}
    /\ aout = NoCall

AuxIdle == TimeIdle /\ GroupsIdle /\ SoloIdle

Init == InitProcs /\ InitBackend /\ OIDCIdle /\ AuxIdle

InitOIDC ==
    /\ BootDone
    /\ InitCalls
    /\ connector \in Connectors
    /\ \E u \in UserStates :
          users = [e \in Emails |-> IF e = "foo@example.com" THEN u ELSE "absent"]
    /\ AuxIdle


\* --------------------------------------------------------------- helpers
\* what a backend operation returns: its regular outcome ("ok", "NotFound" or
\* "AlreadyExists", decided by the backend state) or any other error
Outcomes(regular) == {regular, "BackendError"}

\* [mutant of Tolerated] any error of the cluster configuration read is
\* taken for "not found"
ToleratedAnyConfigError(step, err) ==
    \/ err = "AlreadyExists" /\ step \in {"authorities", "setClusterName", "adminRole"}
    \/ err = "NotFound" /\ step \in {"getUserCA", "getHostCA"}
    \/ step = "getClusterConfig"

\* the errors Init does not return on: AlreadyExists when it creates a
\* pre-configured authority, the cluster name or the default admin role,
\* NotFound when it reads the cluster configuration or a local CA
Tolerated(step, err) ==
    \/ err = "AlreadyExists" /\ step \in {"authorities", "setClusterName", "adminRole"}
    \/ err = "NotFound" /\ step \in {"getClusterConfig", "getUserCA", "getHostCA"}

\* [mutant of Propagates] an error of the legacy migration is not returned
PropagatesButMigration(step, err) ==
    /\ err # "ok"
    /\ ~Tolerated(step, err)
    /\ step \notin {"migrateUsers", "migrateRemoteClusters", "migrateIdentities",
                    "migrateAdminRole"}

\* Init returns on every error it does not tolerate
Propagates(step, err) == err # "ok" /\ ~Tolerated(step, err)

\* the step of p ended with err
Note(p, err) == [fault EXCEPT ![p] = @ \/ err = "BackendError"]

Goto(p, to) == pc' = [pc EXCEPT ![p] = to]

\* [mutant of Return] Init returns without running the deferred ReleaseLock
ReturnWithoutRelease(p, e) ==
    /\ pc' = [pc EXCEPT ![p] = "done"]
    /\ ret' = [ret EXCEPT ![p] = e]

\* Init returns (nil, err) after the lock was taken: the deferred ReleaseLock
\* is all that is left to run
Return(p, e) ==
    /\ pc' = [pc EXCEPT ![p] = "release"]
    /\ ret' = [ret EXCEPT ![p] = e]

\* a step whose backend operation touches no state of this model
PlainStep(p, from, to) ==
    /\ pc[p] = from
    /\ \E err \in Outcomes("ok") :
          /\ fault' = Note(p, err)
          /\ IF Propagates(from, err)
                THEN Return(p, err)
                ELSE Goto(p, to) /\ UNCHANGED ret
    /\ UNCHANGED <<cfgName, effName, readID, caLocal, periodic, migrated,
                   lockHolder, storedName, clusterID, adminRole, cas>>

\* [mutant of LockName] the lock is named after the host, not the cluster
LockNamePerHost(p) == IF p = 1 THEN "a" ELSE "b"

\* the name of the backend lock Init takes
LockName(p) == cfgName[p]

\* the backend lock is exclusive: it can be taken when nobody holds it
LockFree(name) == lockHolder[name] = 0

\* [mutant of ChooseClusterID] a new id on every start
AlwaysNewClusterID(p, read) == NewUUID(p)

\* the id Init stores in the cluster configuration, given the one it read
ChooseClusterID(p, read) ==
    IF read # Absent /\ read # EmptyID THEN read ELSE NewUUID(p)

\* [mutant of OverrideName] the configured name is kept
KeepConfiguredName(configured, cn) == configured

\* the cluster name Init continues with after SetClusterName reported
\* AlreadyExists, given the configured name and the name in the backend
OverrideName(configured, cn) == IF cn # configured THEN cn ELSE configured

\* a freshly generated authority: GenerateKeyPair and GenerateSelfSignedCA
GeneratedCA(p, t) ==
    [ssh |-> FreshKey(p, t \o "-ssh"), rsa |-> TRUE,
     tls |-> <<FreshKey(p, t \o "-tls")>>]

\* the private key of the TLS key pair added to an existing user CA
UserBackfillKey(p, ca) == FreshKey(p, "user-tls")

\* the private key of the TLS key pair added to an existing host CA
HostBackfillKey(p, ca) == ca.ssh

\* [mutant of AfterGetCA] a new authority is generated on every start
AlwaysGenerateCA(err, ca, gen, backfill, next) == gen

\* [mutant of AfterGetCA] an authority that is present is taken as it is
NeverBackfillCA(err, ca, gen, backfill, next) ==
    IF err # "ok" THEN gen ELSE next

\* where Init continues after reading a local CA
AfterGetCA(err, ca, gen, backfill, next) ==
    IF err # "ok" THEN gen ELSE IF Len(ca.tls) = 0 THEN backfill ELSE next

\* ------------------------------------------------------------ steps of Init
\* Init is called: the configuration is fixed and its DataDir and HostUUID
\* are checked
Start(p) ==
    /\ pc[p] = "idle"
    /\ \E name \in Names, valid \in BOOLEAN :
          /\ cfgName' = [cfgName EXCEPT ![p] = name]
          /\ effName' = [effName EXCEPT ![p] = name]
          /\ IF valid
                THEN Goto(p, "acquire") /\ UNCHANGED ret
                ELSE /\ pc' = [pc EXCEPT ![p] = "done"]
                     /\ ret' = [ret EXCEPT ![p] = "BadParameter"]
    /\ UNCHANGED <<readID, caLocal, periodic, fault, migrated, lockHolder,
                   storedName, clusterID, adminRole, cas>>

AcquireLock(p) ==
    /\ pc[p] = "acquire"
    /\ \/ /\ LockFree(LockName(p))
          /\ lockHolder' = [lockHolder EXCEPT ![LockName(p)] = p]
          /\ Goto(p, "newServer")
          /\ UNCHANGED <<ret, fault>>
       \/ /\ pc' = [pc EXCEPT ![p] = "done"]
          /\ ret' = [ret EXCEPT ![p] = "BackendError"]
          /\ fault' = Note(p, "BackendError")
          /\ UNCHANGED lockHolder
    /\ UNCHANGED <<cfgName, effName, readID, caLocal, periodic, migrated,
                   storedName, clusterID, adminRole, cas>>

NewAuthServer(p) == PlainStep(p, "newServer", "roles")

UpsertRoles(p) == PlainStep(p, "roles", "authorities")

CreateAuthorities(p) ==
    /\ pc[p] = "authorities"
    /\ \E auth \in AuthChoices :
          LET id == <<cfgName[p], auth[1]>>
              regular == IF auth[1] = "none" THEN "ok"
                         ELSE IF cas[id] # NoCA THEN "AlreadyExists" ELSE "ok"
          IN \E err \in Outcomes(regular) :
                /\ fault' = Note(p, err)
                /\ IF Propagates("authorities", err)
                      THEN Return(p, err) /\ UNCHANGED cas
                      ELSE /\ Goto(p, "tunnels")
                           /\ UNCHANGED ret
                           /\ IF err = "ok" /\ auth[1] # "none"
                                 THEN cas' = [cas EXCEPT ![id] = PreConfigured(auth)]
                                 ELSE UNCHANGED cas
    /\ UNCHANGED <<cfgName, effName, readID, caLocal, periodic, migrated,
                   lockHolder, storedName, clusterID, adminRole>>

UpsertTunnels(p) == PlainStep(p, "tunnels", "getClusterConfig")

GetClusterConfig(p) ==
    /\ pc[p] = "getClusterConfig"
    /\ \E err \in Outcomes(IF clusterID = Absent THEN "NotFound" ELSE "ok") :
          /\ fault' = Note(p, err)
          /\ IF Propagates("getClusterConfig", err)
                THEN Return(p, err) /\ UNCHANGED readID
                ELSE /\ Goto(p, "setClusterConfig")
                     /\ readID' = [readID EXCEPT ![p] =
                                     IF err = "ok" THEN clusterID ELSE Absent]
                     /\ UNCHANGED ret
    /\ UNCHANGED <<cfgName, effName, caLocal, periodic, migrated,
                   lockHolder, storedName, clusterID, adminRole, cas>>

SetClusterConfig(p) ==
    /\ pc[p] = "setClusterConfig"
    /\ \E err \in Outcomes("ok") :
          /\ fault' = Note(p, err)
          /\ IF Propagates("setClusterConfig", err)
                THEN Return(p, err)
                ELSE Goto(p, "setClusterName") /\ UNCHANGED ret
          /\ clusterID' = IF err = "ok" THEN ChooseClusterID(p, readID[p])
                                        ELSE clusterID
    /\ UNCHANGED <<cfgName, effName, readID, caLocal, periodic, migrated,
                   lockHolder, storedName, adminRole, cas>>

SetClusterName(p) ==
    /\ pc[p] = "setClusterName"
    /\ \E err \in Outcomes(IF storedName = "" THEN "ok" ELSE "AlreadyExists") :
          /\ fault' = Note(p, err)
          /\ IF Propagates("setClusterName", err)
                THEN Return(p, err)
                ELSE /\ UNCHANGED ret
                     /\ Goto(p, IF err = "AlreadyExists" THEN "getClusterName"
                                                         ELSE "staticTokens")
          /\ storedName' = IF err = "ok" THEN cfgName[p] ELSE storedName
    /\ UNCHANGED <<cfgName, effName, readID, caLocal, periodic, migrated,
                   lockHolder, clusterID, adminRole, cas>>

GetClusterName(p) ==
    /\ pc[p] = "getClusterName"
    /\ \E err \in Outcomes(IF storedName = "" THEN "NotFound" ELSE "ok") :
          /\ fault' = Note(p, err)
          /\ IF Propagates("getClusterName", err)
                THEN Return(p, err) /\ UNCHANGED effName
                ELSE /\ Goto(p, "staticTokens")
                     /\ UNCHANGED ret
                     /\ effName' = [effName EXCEPT ![p] =
                                      IF err = "ok"
                                         THEN OverrideName(cfgName[p], storedName)
                                         ELSE @]
    /\ UNCHANGED <<cfgName, readID, caLocal, periodic, migrated,
                   lockHolder, storedName, clusterID, adminRole, cas>>

SetStaticTokens(p) == PlainStep(p, "staticTokens", "authPreference")

SetAuthPreference(p) == PlainStep(p, "authPreference", "namespace")

UpsertNamespace(p) == PlainStep(p, "namespace", "adminRole")

CreateAdminRole(p) ==
    /\ pc[p] = "adminRole"
    /\ \E err \in Outcomes(IF adminRole = "absent" THEN "ok" ELSE "AlreadyExists") :
          /\ fault' = Note(p, err)
          /\ IF Propagates("adminRole", err)
                THEN Return(p, err)
                ELSE Goto(p, "getUserCA") /\ UNCHANGED ret
          /\ adminRole' = IF err = "ok" THEN "kube" ELSE adminRole
    /\ UNCHANGED <<cfgName, effName, readID, caLocal, periodic, migrated,
                   lockHolder, storedName, clusterID, cas>>

GetCA(p, t, from, gen, backfill, next) ==
    /\ pc[p] = from
    /\ LET ca == cas[<<effName[p], t>>] IN
       \E err \in Outcomes(IF ca = NoCA THEN "NotFound" ELSE "ok") :
          /\ fault' = Note(p, err)
          /\ IF Propagates(from, err)
                THEN Return(p, err) /\ UNCHANGED caLocal
                ELSE /\ Goto(p, AfterGetCA(err, ca, gen, backfill, next))
                     /\ caLocal' = [caLocal EXCEPT ![p] = IF err = "ok" THEN ca ELSE NoCA]
                     /\ UNCHANGED ret
    /\ UNCHANGED <<cfgName, effName, readID, periodic, migrated,
                   lockHolder, storedName, clusterID, adminRole, cas>>

UpsertCA(p, t, from, next, ca) ==
    /\ pc[p] = from
    /\ \E err \in Outcomes("ok") :
          /\ fault' = Note(p, err)
          /\ IF Propagates(from, err)
                THEN Return(p, err)
                ELSE Goto(p, next) /\ UNCHANGED ret
          /\ cas' = IF err = "ok" THEN [cas EXCEPT ![<<effName[p], t>>] = ca] ELSE cas
    /\ UNCHANGED <<cfgName, effName, readID, caLocal, periodic, migrated,
                   lockHolder, storedName, clusterID, adminRole>>

GetUserCA(p) == GetCA(p, "user", "getUserCA", "genUserCA", "backfillUserCA", "getHostCA")

GenerateUserCA(p) == UpsertCA(p, "user", "genUserCA", "getHostCA", GeneratedCA(p, "user"))

BackfillUserCA(p) ==
    UpsertCA(p, "user", "backfillUserCA", "getHostCA",
             [caLocal[p] EXCEPT !.tls = <<UserBackfillKey(p, caLocal[p])>>])

GetHostCA(p) == GetCA(p, "host", "getHostCA", "genHostCA", "backfillHostCA", "migrateUsers")

GenerateHostCA(p) == UpsertCA(p, "host", "genHostCA", "migrateUsers", GeneratedCA(p, "host"))

BackfillHostCA(p) ==
    IF caLocal[p].rsa
       THEN UpsertCA(p, "host", "backfillHostCA", "migrateUsers",
                     [caLocal[p] EXCEPT !.tls = <<HostBackfillKey(p, caLocal[p])>>])
       ELSE /\ pc[p] = "backfillHostCA"
            /\ Return(p, "BadParameter")
            /\ UNCHANGED <<cfgName, effName, readID, caLocal, periodic, fault,
                           migrated, lockHolder, storedName, clusterID,
                           adminRole, cas>>

\* one step of migrateLegacyResources
MigrationStep(p, from, to, regular) ==
    /\ pc[p] = from
    /\ \E err \in Outcomes(regular) :
          /\ fault' = Note(p, err)
          /\ IF Propagates(from, err)
                THEN Return(p, err) /\ UNCHANGED migrated
                ELSE /\ Goto(p, to)
                     /\ migrated' = [migrated EXCEPT ![p] =
                                       IF err = "ok" THEN Append(@, from) ELSE @]
                     /\ UNCHANGED ret
    /\ UNCHANGED <<cfgName, effName, readID, caLocal, periodic,
                   lockHolder, storedName, clusterID, cas>>

MigrateUsers(p) ==
    MigrationStep(p, "migrateUsers", "migrateRemoteClusters", "ok")
    /\ UNCHANGED adminRole

MigrateRemoteClusters(p) ==
    MigrationStep(p, "migrateRemoteClusters", "migrateIdentities", "ok")
    /\ UNCHANGED adminRole

MigrateIdentities(p) ==
    MigrationStep(p, "migrateIdentities", "migrateAdminRole", "ok")
    /\ UNCHANGED adminRole

MigrateAdminRole(p) ==
    /\ MigrationStep(p, "migrateAdminRole", "periodic",
                     IF adminRole = "absent" THEN "NotFound" ELSE "ok")
    /\ adminRole' = IF pc'[p] = "periodic" /\ adminRole # "absent"
                       THEN "kube" ELSE adminRole

\* the end of Init: periodic operations unless cfg.SkipPeriodicOperations,
\* and return asrv, nil
StartPeriodic(p) ==
    /\ pc[p] = "periodic"
    /\ \E skip \in BOOLEAN : periodic' = [periodic EXCEPT ![p] = ~skip]
    /\ Return(p, "server")
    /\ UNCHANGED <<cfgName, effName, readID, caLocal, fault, migrated,
                   lockHolder, storedName, clusterID, adminRole, cas>>

\* the deferred ReleaseLock runs and Init returns; its locals are gone
ReleaseLock(p) ==
    /\ pc[p] = "release"
    /\ lockHolder' = [lockHolder EXCEPT ![LockName(p)] = 0]
    /\ Goto(p, "done")
    /\ readID' = [readID EXCEPT ![p] = Absent]
    /\ caLocal' = [caLocal EXCEPT ![p] = NoCA]
    /\ UNCHANGED <<cfgName, effName, ret, periodic, fault, migrated,
                   storedName, clusterID, adminRole, cas>>

\* every step of Init after the call
RunStep(p) ==
    \/ AcquireLock(p)
    \/ NewAuthServer(p)
    \/ UpsertRoles(p)
    \/ CreateAuthorities(p)
    \/ UpsertTunnels(p)
    \/ GetClusterConfig(p)
    \/ SetClusterConfig(p)
    \/ SetClusterName(p)
    \/ GetClusterName(p)
    \/ SetStaticTokens(p)
    \/ SetAuthPreference(p)
    \/ UpsertNamespace(p)
    \/ CreateAdminRole(p)
    \/ GetUserCA(p)
    \/ GenerateUserCA(p)
    \/ BackfillUserCA(p)
    \/ GetHostCA(p)
    \/ GenerateHostCA(p)
    \/ BackfillHostCA(p)
    \/ MigrateUsers(p)
    \/ MigrateRemoteClusters(p)
    \/ MigrateIdentities(p)
    \/ MigrateAdminRole(p)
    \/ StartPeriodic(p)
    \/ ReleaseLock(p)

\* server processes start independently and run Init concurrently
Next ==
    /\ \E p \in Procs : Start(p) \/ RunStep(p)
    /\ UNCHANGED <<oidcVars, auxVars>>

Spec == Init /\ [][Next]_vars

\* Init is called again only after the previous call has returned
StartSeq(p) ==
    /\ \A q \in Procs : pc[q] \in {"idle", "done"}
    /\ Start(p)

NextSeq ==
    /\ \E p \in Procs : StartSeq(p) \/ RunStep(p)
    /\ UNCHANGED <<oidcVars, auxVars>>

SpecSeq == Init /\ [][NextSeq]_vars

\* ------------------------------------------------ OIDC: pure functions
\* [mutant of mergeClaims] a key of b replaces the key of a
mergeClaimsOverwrite(a, b) ==
    [k \in (DOMAIN a) \cup (DOMAIN b) |-> IF k \in DOMAIN b THEN b[k] ELSE a[k]]

\* mergeClaims merges b into a: a key of a keeps its value
mergeClaims(a, b) ==
    [k \in (DOMAIN a) \cup (DOMAIN b) |-> IF k \in DOMAIN a THEN a[k] ELSE b[k]]

\* [mutant of SubjectsMatch] the subjects are not compared
SubjectsNotChecked(idsub, uisub) == TRUE

\* the subject of the UserInfo response is the subject of the ID token
SubjectsMatch(idsub, uisub) == idsub = uisub

\* getClaims: the claims and the error it returns for the provider's
\* answers, and whether it has called the group API
getClaims(a) ==
    IF a.exch # "ok" THEN [claims |-> NilClaims, err |-> "error", fetched |-> FALSE]
    ELSE IF a.uiKind = "NotFound" THEN [claims |-> a.id, err |-> "ok", fetched |-> FALSE]
    ELSE IF a.uiKind # "ok" THEN [claims |-> NilClaims, err |-> "error", fetched |-> FALSE]
    ELSE IF ~HasClaim(a.id, "sub") THEN [claims |-> NilClaims, err |-> "ok", fetched |-> FALSE]
    ELSE IF ~HasClaim(a.ui, "sub") THEN [claims |-> NilClaims, err |-> "ok", fetched |-> FALSE]
    ELSE IF ~SubjectsMatch(a.id["sub"], a.ui["sub"])
       THEN [claims |-> NilClaims, err |-> "BadParameter", fetched |-> FALSE]
    ELSE IF ~a.gsuite
       THEN [claims |-> mergeClaims(a.id, a.ui), err |-> "ok", fetched |-> FALSE]
    ELSE IF a.gsKind = "NotFound"
       THEN [claims |-> mergeClaims(a.id, a.ui), err |-> "ok", fetched |-> TRUE]
    ELSE IF a.gsKind # "ok"
       THEN [claims |-> NilClaims, err |-> "error", fetched |-> TRUE]
    ELSE [claims |-> mergeClaims(mergeClaims(a.id, a.ui), a.gs), err |-> "ok",
          fetched |-> TRUE]

\* [mutant of validateACRValues] the default rule for every provider
validateACRValuesDefault(acrValue, identityProvider, c) ==
    IF ~HasClaim(c, "acr") \/ c["acr"].kind # "string" THEN "BadParameter"
    ELSE IF c["acr"].str # acrValue THEN "BadParameter"
    ELSE "ok"

\* validateACRValues. NetIQ: the acr claim is an object whose values list
\* has the expected value among its strings. Default: StringClaim("acr")
\* (a claim that is not a string is reported as not existing) equals the
\* expected value
validateACRValues(acrValue, identityProvider, c) ==
    IF identityProvider = "netiq"
    THEN IF ~HasClaim(c, "acr") THEN "BadParameter"
         ELSE IF c["acr"].kind # "object" THEN "BadParameter"
         ELSE IF c["acr"].values.kind = "absent" THEN "BadParameter"
         ELSE IF c["acr"].values.kind # "list" THEN "BadParameter"
         ELSE IF \E i \in 1..Len(c["acr"].values.list) :
                    /\ c["acr"].values.list[i].isString
                    /\ c["acr"].values.list[i].text = acrValue
              THEN "ok"
              ELSE "BadParameter"
    ELSE IF ~HasClaim(c, "acr") \/ c["acr"].kind # "string" THEN "BadParameter"
         ELSE IF c["acr"].str # acrValue THEN "BadParameter"
         ELSE "ok"

\* oidc.IdentityFromClaims: the sub claim is required
IdentityFromClaims(c) ==
    IF c = NilClaims \/ ~HasClaim(c, "sub") THEN [err |-> "error", email |-> ""]
    ELSE [err |-> "ok", email |-> IF HasClaim(c, "email") THEN c["email"] ELSE ""]

\* buildOIDCRoles for a connector mapping email foo@example.com to admin
buildOIDCRoles(c) ==
    IF HasClaim(c, "email") /\ c["email"] = "foo@example.com" THEN {"admin"} ELSE {}

\* [mutant of OPropagates] the error of the request lookup is not returned
OPropagatesButLookup(step, err) == err # "ok" /\ step # "getRequest"

\* [mutant of OPropagates] the errors of certificate issuance and of the
\* host CA lookup are not returned
OPropagatesButCert(step, err) == err # "ok" /\ step \notin {"cert", "hostCA"}

\* validateOIDCAuthCallback returns on every error
OPropagates(step, err) == err # "ok"

\* GetOIDCAuthRequest finds a request that is pending, and takes it
RequestPending(t) == t \in Tokens /\ reqState[t] = "pending"

\* ------------------------------------------------------- OIDC: helpers
ONote(c, err) == [cfault EXCEPT ![c] = @ \/ err = "BackendError"]

OGoto(c, to) == cpc' = [cpc EXCEPT ![c] = to]

\* validateOIDCAuthCallback has returned: its locals are gone
DropLocals(c) ==
    /\ query' = [query EXCEPT ![c] = NoQuery]
    /\ prov' = [prov EXCEPT ![c] = NoProv]
    /\ claims' = [claims EXCEPT ![c] = NilClaims]

\* validateOIDCAuthCallback returns (nil, err): the outer call emits the
\* audit event next
OFail(c, step, err) ==
    /\ cpc' = [cpc EXCEPT ![c] = "audit"]
    /\ cres' = [cres EXCEPT ![c] = <<step, err>>]
    /\ resp' = [resp EXCEPT ![c] = NoResp]
    /\ creq' = [creq EXCEPT ![c] = NoReq]
    /\ DropLocals(c)

\* validateOIDCAuthCallback returns (response, nil); the response carries
\* the request
OSucceed(c) ==
    /\ cpc' = [cpc EXCEPT ![c] = "audit"]
    /\ cres' = [cres EXCEPT ![c] = <<"", "ok">>]
    /\ DropLocals(c)
    /\ UNCHANGED creq

\* the call goes on to its next step with its locals as they are
Continue(c, to) ==
    /\ OGoto(c, to)
    /\ UNCHANGED <<query, creq, prov, claims, cres, resp>>

\* a step of the callback whose operation touches no state of this model
OPlain(c, from, to) ==
    /\ cpc[c] = from
    /\ \E err \in Outcomes("ok") :
          /\ cfault' = ONote(c, err)
          /\ IF OPropagates(from, err)
                THEN OFail(c, from, err)
                ELSE Continue(c, to)
    /\ UNCHANGED <<wrote, audit, connector, cas, reqState, reqFlags, gotBy, users,
                   sessions, certs>>

\* ------------------------------------------------------- OIDC: operations
\* [mutant of CreateOIDCAuthRequest] the host CA is replaced as well
CreateOIDCAuthRequestRotating(t) ==
    /\ reqState[t] = "unused"
    /\ \A u \in Tokens : u < t => reqState[u] # "unused"
    /\ \E f \in RequestFlags : reqFlags' = [reqFlags EXCEPT ![t] = f]
    /\ reqState' = [reqState EXCEPT ![t] = "pending"]
    /\ cas' = [cas EXCEPT ![<<storedName, "host">>] = GeneratedCA(1, "host")]
    /\ UNCHANGED <<cpc, query, creq, prov, claims, cres, cfault, resp, wrote,
                   audit, connector, gotBy, users, sessions, certs>>

\* CreateOIDCAuthRequest persists a request under a new state token
CreateOIDCAuthRequest(t) ==
    /\ reqState[t] = "unused"
    /\ \A u \in Tokens : u < t => reqState[u] # "unused"
    /\ \E f \in RequestFlags : reqFlags' = [reqFlags EXCEPT ![t] = f]
    /\ reqState' = [reqState EXCEPT ![t] = "pending"]
    /\ UNCHANGED <<cpc, query, creq, prov, claims, cres, cfault, resp, wrote,
                   audit, connector, cas, gotBy, users, sessions, certs>>

\* the TTL of a pending request elapses: the backend drops it
ExpireRequest(t) ==
    /\ reqState[t] = "pending"
    /\ reqState' = [reqState EXCEPT ![t] = "expired"]
    /\ reqFlags' = [reqFlags EXCEPT ![t] = NoFlags]
    /\ UNCHANGED <<cpc, query, creq, prov, claims, cres, cfault, resp, wrote,
                   audit, connector, cas, gotBy, users, sessions, certs>>

\* the query of a callback: an error parameter or none, a code or none, a
\* state token (of a created request) or none
Queries ==
    [error : BOOLEAN, code : BOOLEAN,
     state : {0} \cup {t \in Tokens : reqState[t] # "unused"}]

\* [mutant of CheckParams] the error parameter of the query is not read
CheckParamsButError(c) ==
    /\ cpc[c] = "idle"
    /\ \A d \in Calls : d < c => cpc[d] # "idle"
    /\ \E q \in Queries :
          /\ query' = [query EXCEPT ![c] = q]
          /\ IF ~q.code \/ q.state = 0
                THEN /\ cpc' = [cpc EXCEPT ![c] = "audit"]
                     /\ cres' = [cres EXCEPT ![c] = <<"params", "OAuth2InvalidRequest">>]
                     /\ UNCHANGED <<creq, prov, claims, resp>>
                ELSE /\ OGoto(c, "getClusterName")
                     /\ UNCHANGED <<creq, prov, claims, cres, resp>>
    /\ UNCHANGED <<cfault, wrote, audit, connector, cas, reqState, reqFlags, gotBy,
                   users, sessions, certs>>

\* ValidateOIDCAuthCallback is called; the query parameters are checked
\* (calls are numbered in the order of their arrival; a rejected query
\* stays with the call until the call has returned)
CheckParams(c) ==
    /\ cpc[c] = "idle"
    /\ \A d \in Calls : d < c => cpc[d] # "idle"
    /\ \E q \in Queries :
          /\ query' = [query EXCEPT ![c] = q]
          /\ IF q.error \/ ~q.code \/ q.state = 0
                THEN /\ cpc' = [cpc EXCEPT ![c] = "audit"]
                     /\ cres' = [cres EXCEPT ![c] = <<"params", "OAuth2InvalidRequest">>]
                     /\ UNCHANGED <<creq, prov, claims, resp>>
                ELSE /\ OGoto(c, "getClusterName")
                     /\ UNCHANGED <<creq, prov, claims, cres, resp>>
    /\ UNCHANGED <<cfault, wrote, audit, connector, cas, reqState, reqFlags, gotBy,
                   users, sessions, certs>>

OGetClusterName(c) == OPlain(c, "getClusterName", "getRequest")

GetOIDCAuthRequest(c) ==
    /\ cpc[c] = "getRequest"
    /\ LET t == query[c].state IN
       \E err \in Outcomes(IF RequestPending(t) THEN "ok" ELSE "NotFound") :
          /\ cfault' = ONote(c, err)
          /\ IF OPropagates("getRequest", err)
                THEN OFail(c, "getRequest", err)
                ELSE /\ OGoto(c, "getConnector")
                     /\ UNCHANGED <<query, prov, claims, cres, resp>>
                     /\ creq' = [creq EXCEPT ![c] =
                                   [token |-> t,
                                    checkUser |-> reqFlags[t].checkUser,
                                    createWebSession |-> reqFlags[t].createWebSession,
                                    publicKey |-> reqFlags[t].publicKey]]
          /\ IF err = "ok"
                THEN /\ reqState' = [reqState EXCEPT ![t] = "consumed"]
                     /\ reqFlags' = [reqFlags EXCEPT ![t] = NoFlags]
                     /\ gotBy' = [gotBy EXCEPT ![t] = c]
                ELSE UNCHANGED <<reqState, reqFlags, gotBy>>
    /\ UNCHANGED <<wrote, audit, connector, cas, users, sessions, certs>>

GetOIDCConnector(c) == OPlain(c, "getConnector", "getClient")

GetOIDCClient(c) == OPlain(c, "getClient", "getClaims")

\* getClaims, first part: the code is exchanged for the ID token, the token
\* is verified and the UserInfo endpoint is asked
RequestClaims(c) ==
    /\ cpc[c] = "getClaims"
    /\ LET \* ID tokens with an acr claim that is not a string
           withACR(v) == [NoProv EXCEPT !.exch = "ok", !.uiKind = "NotFound",
                            !.id = ("sub" :> "A") @@ ("email" :> "foo@example.com")
                                     @@ ("acr" :> v)]
           s(t) == [isString |-> TRUE, text |-> t]
           n(t) == [isString |-> FALSE, text |-> t]
           objects ==
               {withACR(ACRClaim("object", "", "list", <<s("loa1"), s("loa2")>>)),
                withACR(ACRClaim("object", "", "list", <<n("loa2"), s("loa3")>>)),
                withACR(ACRClaim("object", "", "list", <<>>)),
                withACR(ACRClaim("object", "", "string", <<>>)),
                withACR(ACRClaim("object", "", "absent", <<>>)),
                withACR(ACRClaim("number", "", "absent", <<>>))}
           \* a connector that asks for an ACR is answered with acr claims
           \* of every shape; the NetIQ provider has no UserInfo endpoint
           answers ==
               IF connector.acr = "" THEN ProviderAnswers
               ELSE IF connector.provider = "netiq"
                  THEN objects \cup {a \in ProviderAnswers :
                                       a.exch = "ok" => a.uiKind = "NotFound"}
                  ELSE ProviderAnswers
                       \cup {withACR(ACRClaim("object", "", "list", <<s("loa2")>>))}
       IN  \E a \in answers : prov' = [prov EXCEPT ![c] = a]
    /\ OGoto(c, "extractClaims")
    /\ UNCHANGED <<query, creq, claims, cres, resp, cfault, wrote, audit,
                   connector, cas, reqState, reqFlags, gotBy, users, sessions, certs>>

\* getClaims, second part: the claims are checked and merged; every error
\* of getClaims is returned as an OAuth2 error (the provider's answers are
\* remembered until the audit event of the failure is emitted)
ExtractClaims(c) ==
    /\ cpc[c] = "extractClaims"
    /\ IF OPropagates("getClaims", getClaims(prov[c]).err)
          THEN /\ cpc' = [cpc EXCEPT ![c] = "audit"]
               /\ cres' = [cres EXCEPT ![c] = <<"getClaims", "OAuth2UnsupportedResponseType">>]
               /\ resp' = [resp EXCEPT ![c] = NoResp]
               /\ creq' = [creq EXCEPT ![c] = NoReq]
               /\ query' = [query EXCEPT ![c] = NoQuery]
               /\ UNCHANGED <<prov, claims>>
          ELSE /\ claims' = [claims EXCEPT ![c] = getClaims(prov[c]).claims]
               /\ prov' = [prov EXCEPT ![c] = NoProv]
               /\ OGoto(c, "acr")
               /\ UNCHANGED <<query, creq, cres, resp>>
    /\ UNCHANGED <<cfault, wrote, audit, connector, cas, reqState, reqFlags, gotBy,
                   users, sessions, certs>>

\* the ACR value is validated if the connector sets one
ValidateACR(c) ==
    /\ cpc[c] = "acr"
    /\ IF /\ connector.acr # ""
          /\ validateACRValues(connector.acr, connector.provider, claims[c]) # "ok"
          THEN OFail(c, "acr", "BadParameter")
          ELSE Continue(c, "identity")
    /\ UNCHANGED <<cfault, wrote, audit, connector, cas, reqState, reqFlags, gotBy,
                   users, sessions, certs>>

\* [mutant of BuildIdentity] no user is provisioned
BuildIdentityOnly(c) ==
    /\ cpc[c] = "identity"
    /\ LET ident == IdentityFromClaims(claims[c]) IN
       IF ident.err # "ok"
          THEN OFail(c, "identity", "OAuth2UnsupportedResponseType")
          ELSE /\ resp' = [resp EXCEPT ![c].identity = ident.email]
               /\ OGoto(c, "checkUser")
               /\ claims' = [claims EXCEPT ![c] = NilClaims]
               /\ UNCHANGED <<query, creq, prov, cres>>
    /\ UNCHANGED <<cfault, wrote, audit, connector, cas, reqState, reqFlags, gotBy,
                   users, sessions, certs>>

\* the identity is built from the claims and the response is started (a
\* connector without mappings does not read the claims after that)
BuildIdentity(c) ==
    /\ cpc[c] = "identity"
    /\ LET ident == IdentityFromClaims(claims[c]) IN
       IF ident.err # "ok"
          THEN OFail(c, "identity", "OAuth2UnsupportedResponseType")
          ELSE /\ resp' = [resp EXCEPT ![c].identity = ident.email]
               /\ OGoto(c, IF connector.mappings THEN "createUserRoles" ELSE "checkUser")
               /\ claims' = [claims EXCEPT ![c] =
                                IF connector.mappings THEN @ ELSE NilClaims]
               /\ UNCHANGED <<query, creq, prov, cres>>
    /\ UNCHANGED <<cfault, wrote, audit, connector, cas, reqState, reqFlags, gotBy,
                   users, sessions, certs>>

\* [mutant of BuildRoles] a user without roles is provisioned
BuildRolesUnchecked(c) ==
    /\ cpc[c] = "createUserRoles"
    /\ OGoto(c, "getUser")
    /\ claims' = [claims EXCEPT ![c] = NilClaims]
    /\ UNCHANGED <<query, creq, prov, cres, resp>>
    /\ UNCHANGED <<cfault, wrote, audit, connector, cas, reqState, reqFlags, gotBy,
                   users, sessions, certs>>

\* createOIDCUser, first part: the roles are mapped from the claims, which
\* are not read after that
BuildRoles(c) ==
    /\ cpc[c] = "createUserRoles"
    /\ IF buildOIDCRoles(claims[c]) = {}
          THEN OFail(c, "createUserRoles", "AccessDenied")
          ELSE /\ OGoto(c, "getUser")
               /\ claims' = [claims EXCEPT ![c] = NilClaims]
               /\ UNCHANGED <<query, creq, prov, cres, resp>>
    /\ UNCHANGED <<cfault, wrote, audit, connector, cas, reqState, reqFlags, gotBy,
                   users, sessions, certs>>

\* [mutant of HasConnectorRef] the created-by record is not looked at
ConnectorRefNotChecked(u) == TRUE

\* existingUser.GetCreatedBy().Connector != nil
HasConnectorRef(u) == u = "connector"

\* createOIDCUser, second part: the existing user is read; a local user
\* of the same name is never overwritten
GetUser(c) ==
    /\ cpc[c] = "getUser"
    /\ LET name == resp[c].identity IN
       \E err \in Outcomes(IF users[name] = "absent" THEN "NotFound" ELSE "ok") :
          /\ cfault' = ONote(c, err)
          /\ IF err = "BackendError"
                THEN OFail(c, "getUser", err)
                ELSE IF err = "ok" /\ ~HasConnectorRef(users[name])
                THEN OFail(c, "getUser", "AlreadyExists")
                ELSE Continue(c, "upsertUser")
    /\ UNCHANGED <<wrote, audit, connector, cas, reqState, reqFlags, gotBy, users,
                   sessions, certs>>

\* createOIDCUser, third part: the user is created or overwritten
UpsertUser(c) ==
    /\ cpc[c] = "upsertUser"
    /\ LET name == resp[c].identity IN
       \E err \in Outcomes("ok") :
          /\ cfault' = ONote(c, err)
          /\ IF OPropagates("upsertUser", err)
                THEN OFail(c, "upsertUser", err) /\ UNCHANGED <<users, wrote>>
                ELSE /\ users' = [users EXCEPT ![name] = "connector"]
                     /\ wrote' = [wrote EXCEPT ![c] = @ \cup {"user"}]
                     /\ Continue(c, "checkUser")
    /\ UNCHANGED <<audit, connector, cas, reqState, reqFlags, gotBy, sessions, certs>>

\* [mutant of CheckUser] the user is resolved whatever the request says
CheckUserAlways(c) ==
    /\ cpc[c] = "checkUser"
    /\ Continue(c, "getUserByIdentity")
    /\ UNCHANGED <<cfault, wrote, audit, connector, cas, reqState, reqFlags, gotBy,
                   users, sessions, certs>>

\* without CheckUser the response is returned as it is
CheckUser(c) ==
    /\ cpc[c] = "checkUser"
    /\ IF ~creq[c].checkUser
          THEN OSucceed(c) /\ UNCHANGED resp
          ELSE Continue(c, "getUserByIdentity")
    /\ UNCHANGED <<cfault, wrote, audit, connector, cas, reqState, reqFlags, gotBy,
                   users, sessions, certs>>

\* the user of the identity is the user created by the connector
GetUserByOIDCIdentity(c) ==
    /\ cpc[c] = "getUserByIdentity"
    /\ LET name == resp[c].identity IN
       \E err \in Outcomes(IF users[name] = "connector" THEN "ok" ELSE "NotFound") :
          /\ cfault' = ONote(c, err)
          /\ IF OPropagates("getUserByIdentity", err)
                THEN OFail(c, "getUserByIdentity", err)
                ELSE /\ resp' = [resp EXCEPT ![c].username = name]
                     /\ OGoto(c, "fetchRoles")
                     /\ UNCHANGED <<query, creq, prov, claims, cres>>
    /\ UNCHANGED <<wrote, audit, connector, cas, reqState, reqFlags, gotBy, users,
                   sessions, certs>>

FetchRoles(c) == OPlain(c, "fetchRoles", "session")

\* the web session is created and persisted if the request asks for it
CreateWebSession(c) ==
    /\ cpc[c] = "session"
    /\ IF ~creq[c].createWebSession
          THEN Continue(c, "cert") /\ UNCHANGED <<cfault, sessions, wrote>>
          ELSE \E err \in Outcomes("ok") :
                  /\ cfault' = ONote(c, err)
                  /\ IF OPropagates("session", err)
                        THEN OFail(c, "session", err) /\ UNCHANGED <<sessions, wrote>>
                        ELSE /\ sessions' = sessions \cup {<<c, resp[c].username>>}
                             /\ wrote' = [wrote EXCEPT ![c] = @ \cup {"session"}]
                             /\ resp' = [resp EXCEPT ![c].session = TRUE]
                             /\ OGoto(c, "cert")
                             /\ UNCHANGED <<query, creq, prov, claims, cres>>
    /\ UNCHANGED <<audit, connector, cas, reqState, reqFlags, gotBy, users, certs>>

\* the certificates are issued if the request carries a public key
GenerateUserCert(c) ==
    /\ cpc[c] = "cert"
    /\ IF ~creq[c].publicKey
          THEN OSucceed(c) /\ UNCHANGED <<resp, cfault, certs, wrote>>
          ELSE \E err \in Outcomes("ok") :
                  /\ cfault' = ONote(c, err)
                  /\ IF OPropagates("cert", err)
                        THEN OFail(c, "cert", err) /\ UNCHANGED <<certs, wrote>>
                        ELSE /\ certs' = certs \cup {<<c, resp[c].username>>}
                             /\ wrote' = [wrote EXCEPT ![c] = @ \cup {"cert"}]
                             /\ resp' = [resp EXCEPT ![c].cert = TRUE]
                             /\ OGoto(c, "hostCA")
                             /\ UNCHANGED <<query, creq, prov, claims, cres>>
    /\ UNCHANGED <<audit, connector, cas, reqState, reqFlags, gotBy, users, sessions>>

\* the host CA of this cluster is added to the response
GetHostSigners(c) ==
    /\ cpc[c] = "hostCA"
    /\ \E err \in Outcomes("ok") :
          /\ cfault' = ONote(c, err)
          /\ IF OPropagates("hostCA", err)
                THEN OFail(c, "hostCA", err)
                ELSE /\ resp' = [resp EXCEPT ![c].hostSigners = TRUE]
                     /\ OSucceed(c)
    /\ UNCHANGED <<wrote, audit, connector, cas, reqState, reqFlags, gotBy, users,
                   sessions, certs>>

\* [mutant of EmitAuditEvent] the audit event is emitted for failures only
EmitAuditEventOnFailure(c) ==
    /\ cpc[c] = "audit"
    /\ audit' = [audit EXCEPT ![c] =
                   IF cres[c][2] # "ok"
                      THEN Append(@, [success |-> FALSE, user |-> "",
                                      err |-> cres[c][2]])
                      ELSE @]
    /\ cpc' = [cpc EXCEPT ![c] = "returned"]
    /\ prov' = [prov EXCEPT ![c] = NoProv]
    /\ query' = [query EXCEPT ![c] = NoQuery]
    /\ UNCHANGED <<creq, claims, cres, cfault, resp, wrote,
                   connector, cas, reqState, reqFlags, gotBy, users, sessions, certs>>

\* ValidateOIDCAuthCallback emits the audit event and returns: the event of
\* a failure carries the error text, the event of a success the username of
\* the response
EmitAuditEvent(c) ==
    /\ cpc[c] = "audit"
    /\ audit' = [audit EXCEPT ![c] =
                   IF cres[c][2] # "ok"
                      THEN Append(@, [success |-> FALSE, user |-> "",
                                      err |-> cres[c][2]])
                      ELSE Append(@, [success |-> TRUE,
                                      user |-> resp[c].username, err |-> ""])]
    /\ cpc' = [cpc EXCEPT ![c] = "returned"]
    /\ prov' = [prov EXCEPT ![c] = NoProv]
    /\ query' = [query EXCEPT ![c] = NoQuery]
    /\ UNCHANGED <<creq, claims, cres, cfault, resp, wrote,
                   connector, cas, reqState, reqFlags, gotBy, users, sessions, certs>>

CallStep(c) ==
    \/ CheckParams(c)
    \/ OGetClusterName(c)
    \/ GetOIDCAuthRequest(c)
    \/ GetOIDCConnector(c)
    \/ GetOIDCClient(c)
    \/ RequestClaims(c)
    \/ ExtractClaims(c)
    \/ ValidateACR(c)
    \/ BuildIdentity(c)
    \/ BuildRoles(c)
    \/ GetUser(c)
    \/ UpsertUser(c)
    \/ CheckUser(c)
    \/ GetUserByOIDCIdentity(c)
    \/ FetchRoles(c)
    \/ CreateWebSession(c)
    \/ GenerateUserCert(c)
    \/ GetHostSigners(c)
    \/ EmitAuditEvent(c)

NextOIDC ==
    /\ \/ \E t \in Tokens : CreateOIDCAuthRequest(t) \/ ExpireRequest(t)
       \/ \E c \in Calls : CallStep(c)
    /\ UNCHANGED <<pc, cfgName, effName, readID, caLocal, ret, periodic, fault,
                   migrated, lockHolder, storedName, clusterID, adminRole, auxVars>>

SpecOIDC == InitOIDC /\ [][NextOIDC]_vars

\* callbacks run while local users are created: a local user (a record
\* without connector reference) is created under a name nobody has
NextRace ==
    \/ NextOIDC
    \/ /\ \E e \in Emails :
             /\ users[e] = "absent"
             /\ users' = [users EXCEPT ![e] = "local"]
       /\ UNCHANGED <<bootVars, auxVars, cpc, query, creq, prov, claims, cres,
                      cfault, resp, wrote, audit, connector, reqState, reqFlags,
                      gotBy, sessions, certs>>

\* a connector that provisions users, and no user yet
InitRace ==
    /\ InitOIDC
    /\ connector = [mappings |-> TRUE, acr |-> "", provider |-> ""]
    /\ users = [e \in Emails |-> "absent"]

SpecRace == InitRace /\ [][NextRace]_vars

\* ------------------------------------------------- GSuite group pages
GroupLists == {<<>>, <<"g1">>, <<"g2", "g3">>}

\* what the group API answers to one page fetch: a page of groups with or
\* without a next page token, or a failure (bad status, undecodable body)
PageResponses ==
    [groups : GroupLists, next : BOOLEAN, err : {"ok"}]
    \cup [groups : {<<>>}, next : {FALSE}, err : {"AccessDenied", "BadParameter"}]

\* [mutant of GroupsClaim] the groups collected are dropped
GroupsDropped(gs) == "groups" :> <<>>

\* jose.Claims{"groups": groups}
GroupsClaim(gs) == "groups" :> gs

\* count > MaxPages
PastLimit(n) == n > MaxPages

InitGroups == BootDone /\ OIDCIdle /\ TimeIdle /\ GroupsIdle /\ SoloIdle

\* fetchGroups is called: count := 0, no groups, no page token
FetchGroups ==
    /\ gpc = "idle"
    /\ gpc' = "loop"
    /\ count' = 0
    /\ groups' = <<>>
    /\ hasNext' = FALSE
    /\ UNCHANGED <<served, gaudit, gret>>

\* top of the loop: past the limit the truncation is logged, an audit
\* event is emitted and the loop is left
CheckLimit ==
    /\ gpc = "loop"
    /\ IF PastLimit(count)
          THEN /\ gaudit' = Append(gaudit, "truncated")
               /\ gpc' = "return"
          ELSE /\ gpc' = "fetch"
               /\ UNCHANGED gaudit
    /\ UNCHANGED <<count, hasNext, groups, served, gret>>

\* fetchGroupsPage(nextPageToken): an error is returned at once; the groups
\* of a page are appended, and the loop goes on if the page names a next one
FetchGroupsPage ==
    /\ gpc = "fetch"
    /\ \E r \in PageResponses :
          /\ served' = Append(served, r)
          /\ IF r.err # "ok"
                THEN /\ gret' = [claims |-> NilClaims, err |-> r.err]
                     /\ gpc' = "done"
                     /\ UNCHANGED <<count, hasNext, groups>>
                ELSE /\ groups' = groups \o r.groups
                     /\ UNCHANGED gret
                     /\ IF ~r.next
                           THEN gpc' = "return" /\ UNCHANGED <<count, hasNext>>
                           ELSE /\ count' = count + 1
                                /\ hasNext' = TRUE
                                /\ gpc' = "loop"
    /\ UNCHANGED gaudit

\* return jose.Claims{"groups": groups}, nil
ReturnGroups ==
    /\ gpc = "return"
    /\ gret' = [claims |-> GroupsClaim(groups), err |-> "ok"]
    /\ gpc' = "done"
    /\ UNCHANGED <<count, hasNext, groups, served, gaudit>>

NextGroups ==
    /\ (FetchGroups \/ CheckLimit \/ FetchGroupsPage \/ ReturnGroups)
    /\ UNCHANGED <<bootVars, oidcVars, timeVars, soloVars>>

SpecGroups == InitGroups /\ [][NextGroups]_vars

\* fetchGroups runs on one goroutine and every page fetch returns: the call
\* keeps taking steps until it has returned
SpecGroupsLive == SpecGroups /\ WF_vars(NextGroups)

\* --------------------------------------------------- expiry and TTLs
Times == 0..MaxTime

\* utils.ToTTL: the remaining lifetime at the clock's time
ToTTL(now, tm) == tm - now

\* utils.MinTTL: the minimum of two TTLs
MinTTL(a, b) == IF a < b THEN a ELSE b

\* [mutant of CertTTL] the requested TTL is passed on as it is
CertTTLRequested(now, expiresAt, req) == req

\* the TTL validateOIDCAuthCallback passes to generateUserCert
CertTTL(now, expiresAt, req) == MinTTL(ToTTL(now, expiresAt), req)

\* [mutant of UserExpires] the user is stored without the expiry
UserWithoutExpiry(expiresAt) == MaxTime + MaxTime

\* createOIDCUser: Expires of the user is ExpiresAt of the identity
UserExpires(expiresAt) == expiresAt

\* the ceiling of the lifetime of a bearer token (the constant BearerTokenTTL
\* of the auth package)
BearerTokenTTL == 2

\* RoleSet.AdjustSessionTTL: a TTL longer than the roles allow is cut to
\* what they allow
AdjustSessionTTL(roleMax, ttl) == IF ttl > roleMax THEN roleMax ELSE ttl

\* [mutant of WebSessionExpiry] the bearer token lives for BearerTokenTTL
WebSessionExpiryFixedBearer(now, expiresAt, roleMax) ==
    [expires |-> now + AdjustSessionTTL(roleMax, ToTTL(now, expiresAt)),
     bearer |-> now + BearerTokenTTL]

\* the expiry times validateOIDCAuthCallback sets on the web session
WebSessionExpiry(now, expiresAt, roleMax) ==
    LET sessionTTL == AdjustSessionTTL(roleMax, ToTTL(now, expiresAt))
        bearerTokenTTL == MinTTL(BearerTokenTTL, sessionTTL)
    IN  [expires |-> now + sessionTTL, bearer |-> now + bearerTokenTTL]

\* the backend holds a record until its expiry
Stored(rec, now) == rec.present /\ now < rec.expires

InitTime ==
    /\ BootDone
    /\ OIDCIdle
    /\ GroupsIdle
    /\ SoloIdle
    /\ clock = 0
    /\ tident \in Times
    /\ tuser = NoUser
    /\ tfetch = NoFetch
    /\ tcert = NoCertRequest
    /\ tsess = [done |-> FALSE, at |-> 0, roleMax |-> 0, expires |-> 0, bearer |-> 0]

\* createOIDCUser provisions the user of the identity
CreateOIDCUser ==
    /\ ~tuser.present
    /\ tuser' = [present |-> TRUE, at |-> clock, expires |-> UserExpires(tident)]
    /\ UNCHANGED <<clock, tident, tfetch, tcert, tsess>>

\* GetUser by the name of the federated email
GetUserByName ==
    /\ tfetch' = [done |-> TRUE, at |-> clock,
                  res |-> IF Stored(tuser, clock) THEN "ok" ELSE "NotFound"]
    /\ UNCHANGED <<clock, tident, tuser, tcert, tsess>>

\* a callback whose request carries a public key asks for the certificates
RequestUserCert ==
    /\ \E r \in 0..MaxTTL :
          tcert' = [done |-> TRUE, at |-> clock, req |-> r,
                    ttl |-> CertTTL(clock, tident, r)]
    /\ UNCHANGED <<clock, tident, tuser, tfetch, tsess>>

AdvanceClock ==
    /\ clock < MaxTime
    /\ clock' = clock + 1
    /\ UNCHANGED <<tident, tuser, tfetch, tcert, tsess>>

NextTime ==
    /\ \/ CreateOIDCUser
       \/ GetUserByName
       \/ RequestUserCert
       \/ AdvanceClock
       \/ \* a callback whose request asks for a web session creates it
          /\ \E m \in 1..MaxTTL :
                LET e == WebSessionExpiry(clock, tident, m)
                IN  tsess' = [done |-> TRUE, at |-> clock, roleMax |-> m,
                              expires |-> e.expires, bearer |-> e.bearer]
          /\ UNCHANGED <<clock, tident, tuser, tfetch, tcert>>
    /\ UNCHANGED <<bootVars, oidcVars, groupVars, soloVars>>

SpecTime == InitTime /\ [][NextTime]_vars

\* ------------------------------------------- identities and key pairs
\* teleport.ParseRoles: the roles a comma separated string names, or an
\* error when one of them is not a role
ParseRoles(str) ==
    CASE str = "Admin" -> [roles |-> <<"Admin">>, err |-> "ok"]
      [] str = "Node" -> [roles |-> <<"Node">>, err |-> "ok"]
      [] str = "Proxy" -> [roles |-> <<"Proxy">>, err |-> "ok"]
      [] str = "Admin,Node" -> [roles |-> <<"Admin", "Node">>, err |-> "ok"]
      [] OTHER -> [roles |-> <<>>, err |-> "BadParameter"]

\* [mutant of Equals] the node name is compared as well
EqualsWithNodeName(id, other) == id = other

\* IdentityID.Equals
Equals(id, other) == id.Role = other.Role /\ id.HostUUID = other.HostUUID

\* Identity.TLSConfig: the error it returns. HasTLSConfig: there are a TLS
\* certificate and at least one trust root buffer; tls.X509KeyPair needs the
\* certificate of this private key; every trust root buffer must parse
TLSConfig(i) ==
    IF ~(Len(i.TLSCACertsBytes) # 0 /\ i.TLSCertBytes.kind # "empty") THEN "NotFound"
    ELSE IF i.TLSCertBytes.kind # "cert" \/ i.KeyBytes = "garbage"
            \/ i.TLSCertBytes.key # i.KeyBytes THEN "BadParameter"
    ELSE IF \E j \in 1..Len(i.TLSCACertsBytes) : i.TLSCACertsBytes[j] \in {"", "garbage"}
       THEN "BadParameter"
    ELSE "ok"

\* [mutant of ReadSSHIdentityFromKeyPair] the principals are not checked
ReadSSHAnyPrincipals(keyBytes, certBytes) ==
    LET role == IF "role" \in DOMAIN certBytes.ext THEN certBytes.ext["role"] ELSE ""
        clusterName == IF "authority" \in DOMAIN certBytes.ext
                       THEN certBytes.ext["authority"] ELSE ""
    IN  IF \/ keyBytes \in {"", "garbage"}
           \/ certBytes.kind # "cert"
           \/ certBytes.key # keyBytes
           \/ ParseRoles(role).err # "ok"
           \/ Len(ParseRoles(role).roles) # 1
           \/ clusterName = ""
        THEN [err |-> "BadParameter", id |-> NoIdentity]
        ELSE [err |-> "ok",
              id |-> [NoIdentity EXCEPT
                        !.ID.HostUUID = IF certBytes.principals = <<>> THEN ""
                                        ELSE certBytes.principals[1],
                        !.ID.Role = ParseRoles(role).roles[1],
                        !.ClusterName = clusterName,
                        !.KeyBytes = keyBytes,
                        !.CertBytes = certBytes,
                        !.KeySigner = "cert"]]

\* ReadSSHIdentityFromKeyPair: the error and the Identity it returns
ReadSSHIdentityFromKeyPair(keyBytes, certBytes) ==
    LET fail(e) == [err |-> e, id |-> NoIdentity]
        \* Extensions[name] of a Go map: "" for a missing key
        role == IF "role" \in DOMAIN certBytes.ext THEN certBytes.ext["role"] ELSE ""
        clusterName == IF "authority" \in DOMAIN certBytes.ext
                       THEN certBytes.ext["authority"] ELSE ""
        roles == ParseRoles(role)
    IN  IF keyBytes = "" THEN fail("BadParameter")
        ELSE IF certBytes.kind = "empty" THEN fail("BadParameter")
        \* ssh.ParseAuthorizedKey
        ELSE IF certBytes.kind = "garbage" THEN fail("BadParameter")
        \* pubKey.(*ssh.Certificate)
        ELSE IF certBytes.kind # "cert" THEN fail("BadParameter")
        \* ssh.ParsePrivateKey
        ELSE IF keyBytes = "garbage" THEN fail("BadParameter")
        \* ssh.NewCertSigner: the certificate is for the signer's key
        ELSE IF certBytes.key # keyBytes THEN fail("BadParameter")
        ELSE IF Len(certBytes.principals) < 1 THEN fail("BadParameter")
        ELSE IF \E j \in 1..Len(certBytes.principals) : certBytes.principals[j] = ""
           THEN fail("BadParameter")
        ELSE IF DOMAIN certBytes.ext = {} THEN fail("BadParameter")
        ELSE IF role = "" THEN fail("BadParameter")
        ELSE IF roles.err # "ok" THEN fail(roles.err)
        ELSE IF Len(roles.roles) # 1 THEN fail("error")
        ELSE IF clusterName = "" THEN fail("BadParameter")
        ELSE [err |-> "ok",
              id |-> [NoIdentity EXCEPT
                        !.ID.HostUUID = certBytes.principals[1],
                        !.ID.Role = roles.roles[1],
                        !.ClusterName = clusterName,
                        !.KeyBytes = keyBytes,
                        !.CertBytes = certBytes,
                        !.KeySigner = "cert"]]

\* ReadTLSIdentityFromKeyPair: the error and the Identity it returns. The
\* subject of a certificate is "" when tlsca.FromSubject cannot decode it,
\* else the host id it names (the role is not modelled: "Admin")
ReadTLSIdentityFromKeyPair(keyBytes, certBytes, caCertsBytes) ==
    LET fail(e) == [err |-> e, id |-> NoIdentity]
        identity == [NoIdentity EXCEPT
                        !.ID.HostUUID = certBytes.subject,
                        !.ID.Role = "Admin",
                        !.ClusterName = certBytes.org[1],
                        !.KeyBytes = keyBytes,
                        !.TLSCertBytes = certBytes,
                        !.TLSCACertsBytes = caCertsBytes]
    IN  IF keyBytes = "" THEN fail("BadParameter")
        ELSE IF certBytes.kind = "empty" THEN fail("BadParameter")
        \* tlsca.ParseCertificatePEM
        ELSE IF certBytes.kind # "cert" THEN fail("BadParameter")
        \* tlsca.FromSubject
        ELSE IF certBytes.subject = "" THEN fail("BadParameter")
        ELSE IF Len(certBytes.org) = 0 THEN fail("BadParameter")
        ELSE IF certBytes.org[1] = "" THEN fail("BadParameter")
        ELSE IF TLSConfig(identity) # "ok" THEN fail(TLSConfig(identity))
        ELSE [err |-> "ok", id |-> identity]

\* [mutant of ReadIdentityFromKeyPair] the TLS material is stored without
\* being read first
ReadIdentityUnverified(keyBytes, sshCertBytes, tlsCertBytes, tlsCACertsBytes) ==
    LET ssh == ReadSSHIdentityFromKeyPair(keyBytes, sshCertBytes)
    IN  IF ssh.err # "ok" THEN ssh
        ELSE IF tlsCertBytes.kind # "empty"
           THEN [err |-> "ok",
                 id |-> [ssh.id EXCEPT !.TLSCertBytes = tlsCertBytes,
                                       !.TLSCACertsBytes = tlsCACertsBytes]]
        ELSE ssh

\* ReadIdentityFromKeyPair: the error and the Identity it returns
ReadIdentityFromKeyPair(keyBytes, sshCertBytes, tlsCertBytes, tlsCACertsBytes) ==
    LET ssh == ReadSSHIdentityFromKeyPair(keyBytes, sshCertBytes)
        tls == ReadTLSIdentityFromKeyPair(keyBytes, tlsCertBytes, tlsCACertsBytes)
    IN  IF ssh.err # "ok" THEN ssh
        ELSE IF tlsCertBytes.kind # "empty"
           THEN IF tls.err # "ok" THEN [err |-> tls.err, id |-> NoIdentity]
                ELSE [err |-> "ok",
                      id |-> [ssh.id EXCEPT !.TLSCertBytes = tlsCertBytes,
                                            !.TLSCACertsBytes = tlsCACertsBytes]]
        ELSE ssh

\* AuthServer.GenerateServerKeys: the key, the SSH certificate, the TLS
\* certificate and the trust roots generated for a host of cluster "a": the
\* host id is the first principal, the role is in the role extension
GenerateServerKeys(req) ==
    [key |-> "k1",
     cert |-> [kind |-> "cert", key |-> "k1",
               principals |-> IF req.NodeName = "" THEN <<req.HostUUID>>
                              ELSE <<req.HostUUID, req.NodeName>>,
               ext |-> ("role" :> req.Role) @@ ("authority" :> "a")],
     tls |-> [kind |-> "cert", key |-> "k1", subject |-> req.HostUUID, org |-> <<"a">>],
     cas |-> <<"ca">>]

\* ------------------------------------------------- legacy identities
\* readIdentityCompat: the error and the Identity read from the legacy files
\* of the role of id. A file holds what GenerateServerKeys made for the
\* role on host "h1" (the certificate file garbage when the directory is not
\* valid); a missing TLS file reads as an empty buffer, and the trust roots
\* passed on are always a list of one buffer
readIdentityCompat(dir, id) ==
    LET files == dir.legacy[id.Role]
        keys == GenerateServerKeys([id EXCEPT !.HostUUID = "h1"])
        read == ReadIdentityFromKeyPair(
                    keys.key,
                    IF dir.valid THEN keys.cert
                    ELSE [NoIdentity.CertBytes EXCEPT !.kind = "garbage"],
                    IF "tlscert" \in files THEN keys.tls ELSE NoIdentity.TLSCertBytes,
                    <<IF "tlscacert" \in files THEN keys.cas[1] ELSE "">>)
    IN  IF "key" \notin files THEN [err |-> "NotFound", id |-> NoIdentity]
        ELSE IF "cert" \notin files THEN [err |-> "NotFound", id |-> NoIdentity]
        ELSE IF read.err # "ok" THEN read
        ELSE [err |-> "ok", id |-> [read.id EXCEPT !.ID.NodeName = id.NodeName]]

\* [mutant of migrateIdentity] the legacy files are removed before the
\* identity is written
migrateIdentityRemoveFirst(role) ==
    LET read == readIdentityCompat(dataDir, [NoIdentity.ID EXCEPT !.Role = role])
        next == CASE role = "Admin" -> "Proxy" [] role = "Proxy" -> "Node"
                  [] OTHER -> "migrateAdminRole"
    IN  /\ mpc = [step |-> role, err |-> ""]
        /\ IF read.err = "NotFound"
           THEN mpc' = [mpc EXCEPT !.step = next] /\ UNCHANGED dataDir
           ELSE IF read.err # "ok"
           THEN mpc' = [mpc EXCEPT !.err = read.err] /\ UNCHANGED dataDir
           ELSE \/ /\ mpc' = [mpc EXCEPT !.err = "error"]
                   /\ dataDir' = [dataDir EXCEPT !.legacy[role] = {}]
                \/ /\ mpc' = [mpc EXCEPT !.step = next]
                   /\ dataDir' = [dataDir EXCEPT !.stored[role] = read.id,
                                                 !.legacy[role] = {}]

\* [mutant of migrateIdentity] missing legacy files are an error
migrateIdentityStrict(role) ==
    LET read == readIdentityCompat(dataDir, [NoIdentity.ID EXCEPT !.Role = role])
        next == CASE role = "Admin" -> "Proxy" [] role = "Proxy" -> "Node"
                  [] OTHER -> "migrateAdminRole"
    IN  /\ mpc = [step |-> role, err |-> ""]
        /\ IF read.err # "ok"
           THEN mpc' = [mpc EXCEPT !.err = read.err] /\ UNCHANGED dataDir
           ELSE \/ mpc' = [mpc EXCEPT !.err = "error"] /\ UNCHANGED dataDir
                \/ /\ mpc' = [mpc EXCEPT !.step = next]
                   /\ dataDir' = [dataDir EXCEPT !.stored[role] = read.id,
                                                 !.legacy[role] = {}]

\* migrateIdentity: nothing to do when the legacy identity is not found;
\* another read error is returned; the identity is written to the process
\* storage, which can fail, and after a successful write the four legacy
\* files are removed
migrateIdentity(role) ==
    LET read == readIdentityCompat(dataDir, [NoIdentity.ID EXCEPT !.Role = role])
        next == CASE role = "Admin" -> "Proxy" [] role = "Proxy" -> "Node"
                  [] OTHER -> "migrateAdminRole"
    IN  /\ mpc = [step |-> role, err |-> ""]
        /\ IF read.err = "NotFound"
           THEN mpc' = [mpc EXCEPT !.step = next] /\ UNCHANGED dataDir
           ELSE IF read.err # "ok"
           THEN mpc' = [mpc EXCEPT !.err = read.err] /\ UNCHANGED dataDir
           ELSE \/ mpc' = [mpc EXCEPT !.err = "error"] /\ UNCHANGED dataDir
                \/ /\ mpc' = [mpc EXCEPT !.step = next]
                   /\ dataDir' = [dataDir EXCEPT !.stored[role] = read.id,
                                                 !.legacy[role] = {}]

\* ---------------------------------- functions and migrations on their own
\* one of: the answers getClaims is applied to; a bundle of buffers the read
\* functions are applied to; an IdentityID an identity is generated for; a
\* backend and a data directory the legacy migration runs on
\* the lifetime of a persisted OIDC auth request (defaults.OIDCAuthRequestTTL)
OIDCAuthRequestTTL == 10

\* [mutant of getOIDCClient] the cached client of the name is returned
\* whatever configuration it was built from
getOIDCClientByName(clients, n, conn, buildFails) ==
    IF conn.name \in DOMAIN clients
    THEN [clients |-> clients, built |-> n, config |-> clients[conn.name].config,
          client |-> clients[conn.name].client, err |-> "ok"]
    ELSE LET config == [RedirectURL |-> conn.redirect, ID |-> conn.id,
                        Secret |-> conn.secret, Scope |-> conn.scope]
             client == [id |-> n + 1, config |-> config]
         IN  [clients |-> (conn.name :> [client |-> client, config |-> config]) @@ clients,
              built |-> n + 1, config |-> config, client |-> client, err |-> "ok"]

\* getOIDCClient under AuthServer.lock, on the cache clients when n clients
\* have been built: the configuration is derived from the connector (the
\* scope is openid, email and the connector's scope without repetitions);
\* the cached client is returned when its configuration equals the derived
\* one; otherwise the entry is deleted, a client is built (oidc.NewClient can
\* fail) and cached, and returned
getOIDCClient(clients, n, conn, buildFails) ==
    LET \* utils.Deduplicate: the first occurrence of each element is kept
        RECURSIVE Deduplicate(_, _)
        Deduplicate(in, seen) ==
            IF in = <<>> THEN <<>>
            ELSE IF Head(in) \in seen THEN Deduplicate(Tail(in), seen)
            ELSE <<Head(in)>> \o Deduplicate(Tail(in), seen \cup {Head(in)})
        config == [RedirectURL |-> conn.redirect, ID |-> conn.id, Secret |-> conn.secret,
                   Scope |-> Deduplicate(<<"openid", "email">> \o conn.scope, {})]
        \* oidcConfigsEqual: redirect URL, credentials and scope are equal
        oidcConfigsEqual(a, b) ==
            /\ a.RedirectURL = b.RedirectURL
            /\ a.ID = b.ID
            /\ a.Secret = b.Secret
            /\ a.Scope = b.Scope
        deleted == [k \in DOMAIN clients \ {conn.name} |-> clients[k]]
        client == [id |-> n + 1, config |-> config]
    IN  IF conn.name \in DOMAIN clients /\ oidcConfigsEqual(clients[conn.name].config, config)
        THEN [clients |-> clients, built |-> n, config |-> config,
              client |-> clients[conn.name].client, err |-> "ok"]
        ELSE IF buildFails
        THEN [clients |-> deleted, built |-> n, config |-> config,
              client |-> NoOIDCClient, err |-> "error"]
        ELSE [clients |-> (conn.name :> [client |-> client, config |-> config]) @@ deleted,
              built |-> n + 1, config |-> config, client |-> client, err |-> "ok"]

\* [mutant of CreateOIDCAuthRequestOn] the request is returned although it
\* could not be persisted
CreateOIDCAuthRequestUnchecked(clients, n, conn, stateToken, fails) ==
    LET got == getOIDCClient(clients, n, conn, fails = "client")
        url == [state |-> stateToken, access_type |-> "online",
                prompt |-> "select_account",
                acr_values |-> IF conn.acr # "" THEN <<conn.acr>> ELSE <<>>]
        req == [StateToken |-> stateToken, RedirectURL |-> url]
    IN  [clients |-> got.clients, built |-> got.built, config |-> got.config,
         client |-> got.client, req |-> req, err |-> "ok",
         persisted |-> IF fails = "store" THEN {}
                       ELSE {[req |-> req, ttl |-> OIDCAuthRequestTTL]}]

\* CreateOIDCAuthRequest for the connector conn, with the state token
\* CryptoRandomHex returns; fails names the operation that fails, if any:
\* the connector lookup, the client ("client": oidc.NewClient, "oauth":
\* OAuthClient), CryptoRandomHex, url.Parse or the write of the request.
\* The redirect URL is given by its query parameters; acr_values has the
\* values url.Values.Set leaves (none: the parameter is absent)
CreateOIDCAuthRequestOn(clients, n, conn, stateToken, fails) ==
    LET got == getOIDCClient(clients, n, conn, fails = "client")
        failed(c, b, cl, e) ==
            [clients |-> c, built |-> b, config |-> got.config, client |-> cl,
             req |-> NoCall.req, err |-> e, persisted |-> {}]
        authCodeURL == [state |-> stateToken, access_type |-> "online",
                        prompt |-> "select_account", acr_values |-> <<>>]
        url == IF conn.acr # "" THEN [authCodeURL EXCEPT !.acr_values = <<conn.acr>>]
                                ELSE authCodeURL
        req == [StateToken |-> stateToken, RedirectURL |-> url]
    IN  IF fails = "connector" THEN failed(clients, n, NoOIDCClient, "error")
        ELSE IF got.err # "ok" THEN failed(got.clients, got.built, NoOIDCClient, got.err)
        ELSE IF fails \in {"oauth", "random"}
           THEN failed(got.clients, got.built, got.client, "error")
        ELSE IF conn.acr # "" /\ fails = "parse"
           THEN failed(got.clients, got.built, got.client, "error")
        ELSE IF fails = "store"
           THEN failed(got.clients, got.built, got.client, "error")
        ELSE [clients |-> got.clients, built |-> got.built, config |-> got.config,
              client |-> got.client, req |-> req, err |-> "ok",
              persisted |-> {[req |-> req, ttl |-> OIDCAuthRequestTTL]}]

\* [mutant of migrateRemoteClusters] the trusted cluster resource is not
\* looked up
migrateRemoteClustersUnlessRemote(b, local, exists) ==
    [backend |-> [b EXCEPT !.remotes = @ \cup {n \in b.hostCAs : n # local}],
     err |-> ""]

\* migrateRemoteClusters on the backend b of the cluster local: the host CAs
\* are listed; the local one is skipped, and so is one with a remote cluster
\* or a trusted cluster of its name; for each other one a remote cluster is
\* created. exists are the names for which CreateRemoteCluster answers
\* AlreadyExists (somebody else has created the resource since the lookup)
migrateRemoteClusters(b, local, exists) ==
    LET create == {n \in b.hostCAs :
                     n # local /\ n \notin b.remotes /\ n \notin b.trusted}
    IN  [backend |-> [b EXCEPT !.remotes = @ \cup (create \ exists)
                                             \cup (create \cap exists)],
         err |-> ""]

InitSolo ==
    /\ BootDone
    /\ OIDCIdle
    /\ TimeIdle
    /\ GroupsIdle
    /\ cout = [done |-> FALSE, claims |-> NilClaims, err |-> "", fetched |-> FALSE]
    /\ bgen = FALSE
    /\ bout = [fn |-> "", err |-> "", id |-> NoIdentity]
    /\ oidcClients = <<>>
    /\ built = 0
    /\ authRequests = {}
    /\ LET ids == IDTokenClaimSets
                    \cup {("sub" :> "A") @@ ("email" :> "foo") @@ ("groups" :> <<"own">>)}
           uis == UserInfoClaimSets
                    \cup {("sub" :> "A") @@ ("email" :> "other") @@ ("groups" :> <<"ui">>)}
           answers ==
               {[NoProv EXCEPT !.exch = "error"]}
               \cup {[exch |-> "ok", id |-> i, uiKind |-> u[1], ui |-> u[2],
                      gsuite |-> g[1], gsKind |-> g[2], gs |-> g[3]] :
                        i \in ids,
                        u \in ({"NotFound", "error"} \X {NilClaims}) \cup ({"ok"} \X uis),
                        g \in {<<FALSE, "unasked", NilClaims>>}
                             \cup ({TRUE} \X {"NotFound", "error"} \X {NilClaims})
                             \cup ({TRUE} \X {"ok"}
                                     \X {GroupsClaim(<<>>), GroupsClaim(<<"g1">>)})}
           sshCerts ==
               {[NoIdentity.CertBytes EXCEPT !.kind = k] : k \in {"empty", "garbage"}}
               \cup {[NoIdentity.CertBytes EXCEPT !.kind = "pubkey", !.key = "k1"]}
               \cup {[kind |-> "cert", key |-> k, principals |-> p, ext |-> e] :
                        k \in {"k1", "k2"},
                        p \in {<<>>, <<"h1">>, <<"h1", "">>, <<"h2", "n">>},
                        e \in {<<>>} \cup
                              {("role" :> r) @@ ("authority" :> a) :
                                 r \in {"", "Admin", "Node", "Admin,Node", "Bogus"},
                                 a \in {"", "a", "b"}}}
           tlsCerts ==
               {[NoIdentity.TLSCertBytes EXCEPT !.kind = k] : k \in {"empty", "garbage"}}
               \cup {[kind |-> "cert", key |-> k, subject |-> s, org |-> o] :
                        k \in {"k1", "k2"}, s \in {"", "h1"},
                        o \in {<<>>, <<"">>, <<"a">>, <<"b">>}}
           noBundle == [key |-> "", cert |-> NoIdentity.CertBytes,
                        tls |-> NoIdentity.TLSCertBytes, cas |-> <<>>]
           bundles == [key : {"", "garbage", "k1"}, cert : sshCerts, tls : tlsCerts,
                       cas : {<<>>, <<"">>, <<"ca">>, <<"ca", "garbage">>}]
                      \ {noBundle}
           noMigration ==
               /\ mpc = [step |-> "idle", err |-> ""]
               /\ mrun = 0
               /\ backend = [users |-> <<>>, roles |-> {}, hostCAs |-> {}, remotes |-> {},
                             trusted |-> {}, kube |-> "absent"]
               /\ dataDir = [legacy |-> <<>>, valid |-> TRUE, stored |-> <<>>]
           \* users of the legacy version ("v1", with their allowed logins),
           \* of the current version and absent users; host CAs of the local
           \* cluster "a" and of foreign clusters
           backends ==
               [users : {("u1" :> [version |-> v[1], logins |-> <<"root">>, roles |-> {}])
                         @@ ("u2" :> [version |-> v[2], logins |-> <<>>,
                                      roles |-> IF v[2] = "v2" THEN {"admin"} ELSE {}]) :
                           v \in {"v1", "v2"} \X {"none", "v1", "v2"}},
                roles : {{<<"admin", <<"root">>>>}},
                hostCAs : {{"a"}, {"a", "b"}, {"a", "c"}, {"a", "b", "c"}},
                remotes : {{}, {"b"}},
                trusted : {{}, {"c"}},
                kube : {"absent", "nokube", "kube"}]
           oneBackend ==
               [users |-> ("u1" :> [version |-> "v1", logins |-> <<"root">>, roles |-> {}])
                          @@ ("u2" :> [version |-> "none", logins |-> <<>>, roles |-> {}]),
                roles |-> {<<"admin", <<"root">>>>}, hostCAs |-> {"a", "b"}, remotes |-> {},
                trusted |-> {}, kube |-> "nokube"]
           files == {"key", "cert", "tlscert", "tlscacert"}
           \* one role with any subset of its four files, the other two
           \* roles with none or all of theirs
           legacies ==
               {[r \in {"Admin", "Proxy", "Node"} |->
                    IF r = one THEN some ELSE IF r \in full THEN files ELSE {}] :
                  one \in {"Admin", "Proxy", "Node"}, some \in SUBSET files,
                  full \in SUBSET {"Admin", "Proxy", "Node"}}
       IN  \/ /\ cin \in answers /\ bin = noBundle /\ bid = NoIdentity.ID /\ noMigration
              /\ aout = NoCall
           \/ /\ cin = NoProv /\ bin \in bundles /\ bid = NoIdentity.ID /\ noMigration
              /\ aout = NoCall
           \/ /\ cin = NoProv /\ bin = noBundle /\ noMigration
              /\ bid \in [Role : {"Admin", "Node"}, HostUUID : {"h1", "h2"},
                          NodeName : {"", "n"}]
              /\ aout = NoCall
           \* an auth server with an empty client cache and no auth request
           \/ /\ cin = NoProv /\ bin = noBundle /\ bid = NoIdentity.ID /\ noMigration
              /\ aout = [NoCall EXCEPT !.fn = ""]
           \/ /\ cin = NoProv /\ bin = noBundle /\ bid = NoIdentity.ID
              /\ aout = NoCall
              /\ mpc = [step |-> "migrateUsers", err |-> ""]
              /\ mrun = 1
              /\ \E l \in legacies, v \in BOOLEAN, b \in backends :
                    /\ backend = b
                    /\ dataDir = [legacy |-> l, valid |-> v,
                                  stored |-> [r \in {"Admin", "Proxy", "Node"} |-> NoIdentity]]
                    /\ \/ b = oneBackend
                       \/ /\ v
                          /\ l = [r \in {"Admin", "Proxy", "Node"} |->
                                   IF r = "Admin" THEN files ELSE {}]

NextSolo ==
    /\ \/ \* getClaims is applied to the answers
          /\ cin # NoProv
          /\ ~cout.done
          /\ cout' = [done |-> TRUE, claims |-> getClaims(cin).claims,
                      err |-> getClaims(cin).err, fetched |-> getClaims(cin).fetched]
          /\ UNCHANGED <<cin, bin, bid, bgen, bout, mpc, mrun, backend, dataDir,
                         oidcClients, built, authRequests, aout>>
       \/ \* one of the read functions is applied to the bundle
          /\ bin # [key |-> "", cert |-> NoIdentity.CertBytes,
                    tls |-> NoIdentity.TLSCertBytes, cas |-> <<>>]
          /\ \E fn \in {"ReadSSHIdentityFromKeyPair", "ReadTLSIdentityFromKeyPair",
                         "ReadIdentityFromKeyPair"} :
               LET r == CASE fn = "ReadSSHIdentityFromKeyPair" ->
                               ReadSSHIdentityFromKeyPair(bin.key, bin.cert)
                          [] fn = "ReadTLSIdentityFromKeyPair" ->
                               ReadTLSIdentityFromKeyPair(bin.key, bin.tls, bin.cas)
                          [] OTHER ->
                               ReadIdentityFromKeyPair(bin.key, bin.cert, bin.tls, bin.cas)
               IN  /\ bout.fn # fn
                   /\ bout' = [fn |-> fn, err |-> r.err, id |-> r.id]
          /\ UNCHANGED <<cin, cout, bin, bid, bgen, mpc, mrun, backend, dataDir,
                         oidcClients, built, authRequests, aout>>
       \/ \* GenerateIdentity: keys are generated for the IdentityID and read
          /\ bid # NoIdentity.ID
          /\ ~bgen
          /\ bgen' = TRUE
          /\ bin' = GenerateServerKeys(bid)
          /\ LET r == ReadIdentityFromKeyPair(bin'.key, bin'.cert, bin'.tls, bin'.cas)
             IN  bout' = [fn |-> "GenerateIdentity", err |-> r.err, id |-> r.id]
          /\ UNCHANGED <<cin, cout, bid, mpc, mrun, backend, dataDir,
                         oidcClients, built, authRequests, aout>>
       \/ \* migrateUsers: every user of the legacy version gets a role
          \* with the user's allowed logins and is stored with that role
          /\ mpc = [step |-> "migrateUsers", err |-> ""]
          /\ LET legacyUsers == {u \in DOMAIN backend.users :
                                   backend.users[u].version = "v1"}
                 \* services.RoleForUser: the name of the role of a user
                 roleName(u) == IF u = "u1" THEN "user:u1" ELSE "user:u2"
             IN  backend' =
                   [backend EXCEPT
                      !.roles = @ \cup {<<roleName(u), backend.users[u].logins>> :
                                          u \in legacyUsers},
                      !.users = [u \in DOMAIN @ |->
                                   IF u \in legacyUsers
                                   THEN [@[u] EXCEPT !.version = "v2",
                                                     !.roles = @ \cup {roleName(u)}]
                                   ELSE @[u]]]
          /\ mpc' = [mpc EXCEPT !.step = "migrateRemoteClusters"]
          /\ UNCHANGED <<cin, cout, bin, bid, bgen, bout, mrun, dataDir,
                         oidcClients, built, authRequests, aout>>
       \/ \* migrateRemoteClusters: a remote cluster is created for every
          \* host CA that is not the local cluster's and has no remote
          \* cluster and no trusted cluster
          /\ mpc = [step |-> "migrateRemoteClusters", err |-> ""]
          /\ \E exists \in SUBSET backend.hostCAs :
                LET r == migrateRemoteClusters(backend, storedName, exists)
                IN  /\ backend' = r.backend
                    /\ mpc' = IF r.err = "" THEN [mpc EXCEPT !.step = "Admin"]
                                            ELSE [mpc EXCEPT !.err = r.err]
          /\ UNCHANGED <<cin, cout, bin, bid, bgen, bout, mrun, dataDir,
                         oidcClients, built, authRequests, aout>>
       \/ \* migrateIdentities: Admin, Proxy, Node in this order
          /\ \E role \in {"Admin", "Proxy", "Node"} : migrateIdentity(role)
          /\ UNCHANGED <<cin, cout, bin, bid, bgen, bout, mrun, backend,
                         oidcClients, built, authRequests, aout>>
       \/ \* migrateAdminRole: GetRole fails when there is no admin role;
          \* kube groups are set when the role has none
          /\ mpc = [step |-> "migrateAdminRole", err |-> ""]
          /\ IF backend.kube = "absent"
             THEN mpc' = [mpc EXCEPT !.err = "NotFound"] /\ UNCHANGED backend
             ELSE /\ mpc' = [mpc EXCEPT !.step = "done"]
                  /\ backend' = [backend EXCEPT !.kube = "kube"]
          /\ UNCHANGED <<cin, cout, bin, bid, bgen, bout, mrun, dataDir,
                         oidcClients, built, authRequests, aout>>
       \/ \* getOIDCClient or CreateOIDCAuthRequest is called for a
          \* connector as it is stored at that time: connectors are
          \* updated between the calls
          /\ aout.fn # "off"
          /\ \E conn \in [name : {"c1"}, redirect : {"r"}, id : {"id"},
                           secret : {"s1", "s2"},
                           scope : {<<>>, <<"email">>, <<"groups">>},
                           acr : {""}]
                          \cup {[name |-> "c2", redirect |-> "r", id |-> "id",
                                 secret |-> "s1", scope |-> <<"groups", "groups">>,
                                 acr |-> "loa2"]} :
                \/ \E buildFails \in BOOLEAN :
                      LET r == getOIDCClient(oidcClients, built, conn, buildFails)
                      IN  /\ r.built <= MaxClients
                          /\ oidcClients' = r.clients
                          /\ built' = r.built
                          /\ aout' = [fn |-> "getOIDCClient", conn |-> conn,
                                      config |-> r.config, client |-> r.client,
                                      req |-> NoCall.req, err |-> r.err]
                          /\ UNCHANGED authRequests
                \/ \E fails \in {"", "connector", "client", "oauth", "random",
                                  "parse", "store"},
                      \* CryptoRandomHex: a token no request has
                      stateToken \in Tokens \ {a.req.StateToken : a \in authRequests} :
                      LET r == CreateOIDCAuthRequestOn(oidcClients, built, conn,
                                                       stateToken, fails)
                      IN  /\ r.built <= MaxClients
                          /\ oidcClients' = r.clients
                          /\ built' = r.built
                          /\ authRequests' = authRequests \cup r.persisted
                          /\ aout' = [fn |-> "CreateOIDCAuthRequest", conn |-> conn,
                                      config |-> r.config, client |-> r.client,
                                      req |-> r.req, err |-> r.err]
          /\ UNCHANGED <<cin, cout, bin, bid, bgen, bout, mpc, mrun, backend, dataDir>>
       \/ \* the auth server starts again after a migration that succeeded
          /\ mpc = [step |-> "done", err |-> ""]
          /\ mrun = 1
          /\ mrun' = 2
          /\ mpc' = [mpc EXCEPT !.step = "migrateUsers"]
          /\ UNCHANGED <<cin, cout, bin, bid, bgen, bout, backend, dataDir,
                         oidcClients, built, authRequests, aout>>
    /\ UNCHANGED <<bootVars, oidcVars, timeVars, groupVars>>

SpecSolo == InitSolo /\ [][NextSolo]_vars

\* ------------------------------------------------------------------ claims
MigrationOrder ==
    <<"migrateUsers", "migrateRemoteClusters", "migrateIdentities", "migrateAdminRole">>

\* p holds the bootstrap lock: it is between AcquireLock and ReleaseLock
InBootstrap(p) == pc[p] \notin {"idle", "acquire", "done"}

\* p has resolved the cluster name it works under
NameResolved(p) ==
    \/ pc[p] \in {"staticTokens", "authPreference", "namespace", "adminRole",
                  "getUserCA", "genUserCA", "backfillUserCA", "getHostCA",
                  "genHostCA", "backfillHostCA", "migrateUsers",
                  "migrateRemoteClusters", "migrateIdentities",
                  "migrateAdminRole", "periodic"}
    \/ ret[p] = "server"

Returned(p) == pc[p] = "done"

LocalCA(t) == cas[<<storedName, t>>]

\* C1: two processes configured with the same cluster name are never both
\* between lock acquisition and lock release; the second one does no step of
\* the bootstrap while the first holds the lock.
C1_LockSerializes ==
    \A p, q \in Procs :
       (p # q /\ cfgName[p] = cfgName[q]) => ~(InBootstrap(p) /\ InBootstrap(q))

C1_Witness ==
    \E p, q \in Procs :
       /\ p # q
       /\ cfgName[p] = cfgName[q]
       /\ pc[p] = "getUserCA"
       /\ pc[q] = "acquire"

\* C2: once the User CA or the Host CA of the stored cluster name is in the
\* backend, no process replaces its signing key or its TLS key pairs by
\* newly generated ones, whatever cluster names the processes are configured
\* with.
C2_NoReplacement ==
    [][\A t \in CATypes :
          (storedName # "" /\ LocalCA(t) # NoCA) =>
             /\ cas'[<<storedName, t>>].ssh = LocalCA(t).ssh
             /\ (Len(LocalCA(t).tls) > 0 => cas'[<<storedName, t>>].tls = LocalCA(t).tls)
      ]_vars

\* C3: after an Init has returned a server, a further Init run in sequence on
\* the same backend (with the same or any other configuration) leaves the
\* User CA record, the Host CA record and the cluster id as they are.
C3_Idempotent ==
    [][(\E p \in Procs : Returned(p) /\ ret[p] = "server") =>
          /\ cas'[<<storedName, "user">>] = LocalCA("user")
          /\ cas'[<<storedName, "host">>] = LocalCA("host")
          /\ clusterID' = clusterID
          /\ storedName' = storedName
      ]_vars

C3_Witness ==
    \E p, q \in Procs :
       /\ p # q
       /\ cfgName[p] = cfgName[q]
       /\ Returned(p) /\ ret[p] = "server"
       /\ Returned(q) /\ ret[q] = "server"

\* C4: when Init backfills an authority that has SSH signing keys and no TLS
\* key pair, the authority then has exactly one TLS key pair and its private
\* key is the authority's SSH signing key, for the User CA and the Host CA.
C4_BackfillReusesKey ==
    [][\A p \in Procs :
          /\ (pc[p] = "backfillUserCA" /\ pc'[p] = "getHostCA") =>
                cas'[<<effName[p], "user">>].tls = <<cas'[<<effName[p], "user">>].ssh>>
          /\ (pc[p] = "backfillHostCA" /\ pc'[p] = "migrateUsers") =>
                cas'[<<effName[p], "host">>].tls = <<cas'[<<effName[p], "host">>].ssh>>
      ]_vars

C6_StoredNameWins ==
    /\ [][storedName # "" => storedName' = storedName]_vars
    /\ [](\A p \in Procs :
            /\ NameResolved(p) => effName[p] = storedName
            /\ ret[p] \notin {"pending", "server"} =>
                  (fault[p] \/ ret[p] = "BadParameter"))

C6_Witness ==
    \E p \in Procs :
       /\ Returned(p) /\ ret[p] = "server"
       /\ cfgName[p] # storedName
       /\ effName[p] = storedName

\* C7: when a backend operation of Init fails with an error that is not one
\* of the tolerated ones, Init returns that error and no server, runs no later
\* step (only the deferred lock release) and starts no periodic operations.
C7_ErrorAborts ==
    /\ [](\A p \in Procs :
            fault[p] => /\ pc[p] \in {"release", "done"}
                        /\ ret[p] = "BackendError"
                        /\ ~periodic[p]
                        /\ Len(migrated[p]) < Len(MigrationOrder))
    /\ [][\A p \in Procs :
            (pc[p] = "release" /\ pc'[p] # pc[p]) =>
               /\ pc'[p] = "done"
               /\ UNCHANGED <<storedName, clusterID, adminRole, cas, ret,
                              periodic, migrated>>
         ]_vars

C7_Witness ==
    \E p \in Procs :
       /\ fault[p]
       /\ Returned(p)
       /\ Len(migrated[p]) = 2

\* C8: legacy migration starts only when both local CAs are in the backend,
\* its steps run in the order users, remote clusters, identities, admin role,
\* a failed step prevents the later ones, and periodic operations start and
\* the server is returned only after all four steps succeeded.
C8_BootstrapOrder ==
    \A p \in Procs :
       /\ (pc[p] \in {"migrateUsers", "migrateRemoteClusters", "migrateIdentities",
                      "migrateAdminRole", "periodic"} \/ migrated[p] # <<>>) =>
             /\ cas[<<effName[p], "user">>] # NoCA
             /\ cas[<<effName[p], "host">>] # NoCA
       /\ migrated[p] = SubSeq(MigrationOrder, 1, Len(migrated[p]))
       /\ (pc[p] \in {"release", "done"} /\ ret[p] # "server") => ~periodic[p]
       /\ (ret[p] = "server" \/ periodic[p] \/ pc[p] = "periodic") =>
             migrated[p] = MigrationOrder

C8_Witness ==
    \E p \in Procs :
       /\ Returned(p)
       /\ ret[p] = "server"
       /\ periodic[p]
       /\ migrated[p] = MigrationOrder

\* the subjects of the ID token and of the UserInfo response are both
\* present and differ
SubMismatch(a) ==
    /\ a.exch = "ok"
    /\ a.uiKind = "ok"
    /\ HasClaim(a.id, "sub")
    /\ HasClaim(a.ui, "sub")
    /\ a.id["sub"] # a.ui["sub"]

\* the call has the request of token t in hand
HoldsRequest(c, t) == creq[c].token = t

C10_SubMismatchFails ==
    /\ [][\A c \in Calls :
            (/\ cpc[c] = "extractClaims"
             /\ SubMismatch(prov[c])
             /\ cpc'[c] # "extractClaims")
            => /\ cpc'[c] = "audit"
               /\ cres'[c] = <<"getClaims", "OAuth2UnsupportedResponseType">>
               /\ resp'[c] = NoResp
               /\ users' = users /\ sessions' = sessions /\ certs' = certs]_vars
    /\ [](\A c \in Calls :
            cres[c][1] = "getClaims"
            => /\ wrote[c] = {}
               /\ resp[c] = NoResp
               /\ \A e \in Emails \cup {""} :
                     <<c, e>> \notin sessions /\ <<c, e>> \notin certs)

\* a callback whose subjects differ has failed; the user it names is absent
C10_Witness ==
    \E c \in Calls :
        /\ cpc[c] = "audit"
        /\ SubMismatch(prov[c])
        /\ cres[c] = <<"getClaims", "OAuth2UnsupportedResponseType">>
        /\ connector.mappings
        /\ users[prov[c].id["email"]] = "absent"

C12_UserExpiresWithIdentity ==
    [][(tuser.present /\ tfetch' # tfetch) =>
          /\ tfetch'.at = clock
          /\ clock < tident => tfetch'.res = "ok"
          /\ clock > tident => tfetch'.res = "NotFound"
      ]_vars

\* the user was provisioned before the expiry and fetched after it
C12_Witness ==
    /\ tuser.present
    /\ tuser.at < tident
    /\ tfetch.done
    /\ tfetch.at > tident
    /\ tfetch.res = "NotFound"

\* C13: createOIDCUser never changes a user record that has no connector
\* reference, and a call whose createOIDCUser reads such a user of the
\* federated email returns at once, with AlreadyExists (or with the error of
\* the read itself), no response and no user written.
C13_LocalUserProtected ==
    /\ [][\A e \in Emails : users[e] = "local" => users'[e] = "local"]_vars
    /\ [][\A c \in Calls :
             (/\ cpc[c] = "getUser"
              /\ cpc'[c] # "getUser"
              /\ users[resp[c].identity] = "local")
             => /\ cpc'[c] = "audit"
                /\ cres'[c] = <<"getUser", IF cfault'[c] THEN "BackendError"
                                                         ELSE "AlreadyExists">>
                /\ resp'[c] = NoResp
                /\ "user" \notin wrote'[c]
                /\ users' = users]_vars

\* a call has returned AlreadyExists and the local user is still there
C13_Witness ==
    \E c \in Calls :
       /\ cpc[c] = "returned"
       /\ cres[c] = <<"getUser", "AlreadyExists">>
       /\ users["foo@example.com"] = "local"
       /\ wrote[c] = {}

\* the groups of the pages served, in the order of the pages
RECURSIVE AllGroups(_)
AllGroups(pages) ==
    IF pages = <<>> THEN <<>>
    ELSE pages[1].groups \o AllGroups(Tail(pages))

\* every answer of the group API so far was a page with a next page token
Endless == \A i \in 1..Len(served) : served[i].err = "ok" /\ served[i].next

\* C14: against a group API that names a next page on every page,
\* fetchGroups stops fetching, returns, and has then returned no error, the
\* groups of all pages fetched under the single key "groups", and has
\* emitted exactly one truncation audit event.
C14_EndlessPagesTruncated ==
    /\ [](Endless => Len(served) <= MaxPages + 1)
    /\ []((gpc = "done" /\ Endless)
            => /\ gret.err = "ok"
               /\ DOMAIN gret.claims = {"groups"}
               /\ gret.claims["groups"] = AllGroups(served)
               /\ gaudit = <<"truncated">>)
    /\ <>(gpc = "done")

\* fetchGroups has returned after pages that all named a next page, with
\* groups of more than one page
C14_Witness ==
    /\ gpc = "done"
    /\ Endless
    /\ gret.err = "ok"
    /\ Len(gaudit) = 1
    /\ served[1].groups = <<"g1">>
    /\ served[2].groups = <<"g2", "g3">>
    /\ gret.claims["groups"][1] = "g1"

\* C15: one call of fetchGroups performs at most MaxPages page fetches.
C15_AtMostMaxPages == Len(served) <= MaxPages

\* C16: every call of ValidateOIDCAuthCallback emits exactly one login audit
\* event, after validateOIDCAuthCallback has finished and before the call
\* returns: a call that has not returned has emitted none, a call that has
\* returned has emitted one, which carries success=false and the error text
\* when validation failed, success=true and the username of the response
\* when it succeeded.
C16_OneAuditEvent ==
    /\ [](\A c \in Calls :
            /\ cpc[c] # "returned" => audit[c] = <<>>
            /\ cpc[c] = "returned"
               => /\ Len(audit[c]) = 1
                  /\ cres[c][2] # "pending"
                  /\ audit[c][1] =
                        IF cres[c][2] = "ok"
                           THEN [success |-> TRUE, user |-> resp[c].username,
                                 err |-> ""]
                           ELSE [success |-> FALSE, user |-> "",
                                 err |-> cres[c][2]])
    /\ [][\A c \in Calls :
            audit'[c] # audit[c]
            => /\ cpc[c] = "audit"
               /\ cpc'[c] = "returned"
               /\ cres'[c] = cres[c]
               /\ resp'[c] = resp[c]]_vars

\* one call has returned a response naming its user, the other an error
C16_Witness ==
    \E c, d \in Calls :
       /\ cpc[c] = "returned"
       /\ audit[c] = <<[success |-> TRUE, user |-> "foo@example.com", err |-> ""]>>
       /\ cpc[d] = "returned"
       /\ audit[d] = <<[success |-> FALSE, user |-> "", err |-> "AccessDenied"]>>

\* C17: a callback whose query has an error parameter, no code or no state
\* fails with the OAuth2 invalid-request error as its first step: before
\* any backend lookup, any provider call and any write.
C17_BadQueryRejected ==
    /\ [][\A c \in Calls :
            (/\ cpc[c] = "idle"
             /\ cpc'[c] # "idle"
             /\ (query'[c].error \/ ~query'[c].code \/ query'[c].state = 0))
            => /\ cpc'[c] = "audit"
               /\ cres'[c] = <<"params", "OAuth2InvalidRequest">>
               /\ resp'[c] = NoResp
               /\ creq'[c] = NoReq
               /\ prov'[c] = NoProv
               /\ UNCHANGED <<reqState, gotBy, users, sessions, certs, wrote,
                              cfault>>]_vars
    /\ [](\A c \in Calls :
            cres[c][1] = "params"
            => /\ wrote[c] = {}
               /\ ~cfault[c]
               /\ creq[c] = NoReq
               /\ \A t \in Tokens : gotBy[t] # c)

\* a callback with an error parameter, a code and the state token of a
\* pending request was rejected; the request is still pending
C17_Witness ==
    \E c \in Calls :
       /\ cpc[c] = "audit"
       /\ cres[c] = <<"params", "OAuth2InvalidRequest">>
       /\ query[c].error /\ query[c].code
       /\ query[c].state \in Tokens
       /\ reqState[query[c].state] = "pending"

\* C18: with a connector that has claim-to-role mappings, a callback is at
\* or past the CheckUser test only after createOIDCUser has written the
\* user, also when the request has CheckUser=false; with a connector that
\* has no mappings no callback writes a user.
C18_ProvisionBeforeCheckUser ==
    /\ [](\A c \in Calls :
            /\ (/\ connector.mappings
                /\ \/ cpc[c] \in {"checkUser", "getUserByIdentity", "fetchRoles",
                                  "session", "cert", "hostCA"}
                   \/ cres[c][2] = "ok")
               => "user" \in wrote[c]
            /\ ~connector.mappings => "user" \notin wrote[c])
    /\ [][\A c \in Calls :
            /\ (cpc[c] = "identity" /\ cpc'[c] \notin {"identity", "audit"})
               => cpc'[c] = IF connector.mappings THEN "createUserRoles"
                                                  ELSE "checkUser"
            /\ ~connector.mappings => users' = users]_vars

\* a callback of a request without CheckUser has returned its response and
\* has provisioned the user
C18_Witness ==
    \E c \in Calls :
       /\ connector.mappings
       /\ cpc[c] = "returned"
       /\ cres[c][2] = "ok"
       /\ creq[c].token \in Tokens
       /\ ~creq[c].checkUser
       /\ wrote[c] = {"user"}
       /\ users["foo@example.com"] = "connector"

\* C19: a response returned with success has a username only if the
\* request had CheckUser, a session only with CheckUser and
\* CreateWebSession, certificates and host signers only with CheckUser and a
\* public key; a callback of a request without CheckUser never looks the
\* user up, never creates a session and never issues a certificate,
\* whatever the other flags of the request are.
C19_FieldsFollowFlags ==
    \A c \in Calls :
       /\ cres[c][2] = "ok"
          => /\ resp[c].username # "" => creq[c].checkUser
             /\ resp[c].session => creq[c].checkUser /\ creq[c].createWebSession
             /\ resp[c].cert => creq[c].checkUser /\ creq[c].publicKey
             /\ resp[c].hostSigners => creq[c].checkUser /\ creq[c].publicKey
       /\ (creq[c].token \in Tokens /\ ~creq[c].checkUser)
          => /\ cpc[c] \notin {"getUserByIdentity", "fetchRoles", "session",
                              "cert", "hostCA"}
             /\ resp[c].username = ""
             /\ "session" \notin wrote[c]
             /\ "cert" \notin wrote[c]
             /\ \A e \in Emails \cup {""} :
                   <<c, e>> \notin sessions /\ <<c, e>> \notin certs

\* a request without CheckUser that asks for a session and carries a
\* public key was answered with the identity alone
C19_Witness ==
    \E c \in Calls :
       /\ cpc[c] = "returned"
       /\ cres[c][2] = "ok"
       /\ creq[c].token \in Tokens
       /\ ~creq[c].checkUser /\ creq[c].createWebSession /\ creq[c].publicKey
       /\ resp[c] = [NoResp EXCEPT !.identity = "foo@example.com"]

\* C20: when certificate issuance or the host CA lookup fails, the callback
\* returns the error and no response, and the web session it has persisted
\* before stays in the backend: no step removes a session.
C20_SessionNotRolledBack ==
    /\ [][/\ sessions \subseteq sessions'
          /\ \A c \in Calls :
                (/\ cpc[c] \in {"cert", "hostCA"}
                 /\ ~cfault[c]
                 /\ cfault'[c])
                => /\ cpc'[c] = "audit"
                   /\ cres'[c] = <<cpc[c], "BackendError">>
                   /\ resp'[c] = NoResp
                   /\ sessions' = sessions]_vars
    /\ [](\A c \in Calls :
            (cres[c][1] \in {"cert", "hostCA"} /\ "session" \in wrote[c])
            => /\ cres[c][2] # "ok"
               /\ resp[c] = NoResp
               /\ \E e \in Emails : <<c, e>> \in sessions)

\* a callback that asked for a session and certificates has returned the
\* error of the certificate issuance; its session is in the backend
C20_Witness ==
    \E c \in Calls :
       /\ cpc[c] = "returned"
       /\ cres[c] = <<"cert", "BackendError">>
       /\ wrote[c] = {"user", "session"}
       /\ resp[c] = NoResp
       /\ <<c, "foo@example.com">> \in sessions

\* C21: when getClaims merges, the claims it returns have exactly the keys
\* of the ID token, the UserInfo response and (for a GSuite connector whose
\* group API answered) the group claims, and every key has the value of the
\* first of these sources, in this order, that has the key
C21_FirstSourceWins ==
    (/\ cout.done
     /\ cout.err = "ok"
     /\ cin.uiKind = "ok"
     /\ HasClaim(cin.id, "sub")
     /\ HasClaim(cin.ui, "sub"))
    => LET third == IF cin.gsuite /\ cin.gsKind = "ok" THEN cin.gs ELSE NilClaims
       IN  /\ DOMAIN cout.claims = DOMAIN cin.id \cup DOMAIN cin.ui \cup DOMAIN third
           /\ \A k \in DOMAIN cout.claims :
                 cout.claims[k] = IF k \in DOMAIN cin.id THEN cin.id[k]
                                  ELSE IF k \in DOMAIN cin.ui THEN cin.ui[k]
                                  ELSE third[k]

C21_Witness ==
    /\ cout.done
    /\ cout.err = "ok"
    /\ cin.gsuite
    /\ cin.gsKind = "ok"
    /\ "groups" \in DOMAIN cin.id
    /\ "groups" \in DOMAIN cin.ui
    /\ cin.gs["groups"] # cin.id["groups"]
    /\ cin.ui["email"] # cin.id["email"]
    /\ cout.claims["groups"] = cin.id["groups"]
    /\ cout.claims["email"] = cin.id["email"]

\* C22: ReadSSHIdentityFromKeyPair returns an Identity exactly when it
\* returns no error, and then the key and the certificate buffers are not
\* empty, the buffer holds a certificate, the certificate has a principal
\* and no empty principal, its role extension names one role and its
\* authority extension is not empty
C22_SSHIdentityChecked ==
    bout.fn = "ReadSSHIdentityFromKeyPair" =>
        /\ (bout.err = "ok") <=> (bout.id # NoIdentity)
        /\ bout.err = "ok" =>
              /\ bin.key # ""
              /\ bin.cert.kind = "cert"
              /\ Len(bin.cert.principals) >= 1
              /\ \A j \in 1..Len(bin.cert.principals) : bin.cert.principals[j] # ""
              /\ "role" \in DOMAIN bin.cert.ext
              /\ bin.cert.ext["role"] \in {"Admin", "Node"}
              /\ "authority" \in DOMAIN bin.cert.ext
              /\ bin.cert.ext["authority"] # ""

C22_Witness ==
    /\ bout.fn = "ReadSSHIdentityFromKeyPair"
    /\ ~bgen
    /\ bout.err = "ok"
    /\ bout.id.ID = [Role |-> "Node", HostUUID |-> "h2", NodeName |-> ""]
    /\ bout.id.ClusterName = "b"

C24_TLSOptional ==
    (/\ bout.fn = "ReadIdentityFromKeyPair"
     /\ ReadSSHIdentityFromKeyPair(bin.key, bin.cert).err = "ok")
    => IF bin.tls.kind = "empty"
       THEN /\ bout.err = "ok"
            /\ bout.id.TLSCertBytes.kind = "empty"
            /\ bout.id.TLSCACertsBytes = <<>>
            /\ TLSConfig(bout.id) = "NotFound"
       ELSE bout.err = "ok" =>
              /\ ReadTLSIdentityFromKeyPair(bin.key, bin.tls, bin.cas).err = "ok"
              /\ bout.id.TLSCertBytes = bin.tls
              /\ bout.id.TLSCACertsBytes = bin.cas

C24_Witness ==
    /\ bout.fn = "ReadIdentityFromKeyPair"
    /\ ~bgen
    /\ bout.err = "ok"
    /\ bout.id.TLSCertBytes.kind = "cert"
    /\ bout.id.TLSCACertsBytes = <<"ca">>
    /\ TLSConfig(bout.id) = "ok"

\* C25: an Identity ReadIdentityFromKeyPair returns with TLS material has
\* a TLS certificate whose issuer organization is the cluster name of the
\* Identity
C25_IssuerIsCluster ==
    (/\ bout.fn = "ReadIdentityFromKeyPair"
     /\ bout.err = "ok"
     /\ bout.id.TLSCertBytes.kind # "empty")
    => bout.id.TLSCertBytes.org[1] = bout.id.ClusterName

\* C30: for a GSuite connector with the groups scope, a getClaims that
\* returns no error has called the group API and returns its groups claim
C30_GroupsFetched ==
    (cout.done /\ cin.gsuite /\ cout.err = "ok")
    => (cout.fetched /\ "groups" \in DOMAIN cout.claims)

\* C26: migrateIdentity changes the legacy files of a role only by removing
\* all of them in the step that has written the identity read from them to
\* the process storage; a step that returns an error removes no file
C26_RemovedAfterWrite ==
    [][\A role \in {"Admin", "Proxy", "Node"} :
          mpc.step = role =>
            /\ dataDir'.legacy[role] # dataDir.legacy[role] =>
                  /\ mpc'.err = ""
                  /\ dataDir'.legacy[role] = {}
                  /\ dataDir'.stored[role] # NoIdentity
                  /\ dataDir'.stored[role] =
                        readIdentityCompat(dataDir, [NoIdentity.ID EXCEPT !.Role = role]).id
            /\ mpc'.err # "" => dataDir' = dataDir]_vars

C26_Witness ==
    /\ mrun = 1
    /\ dataDir.legacy["Proxy"] = {}
    /\ dataDir.stored["Proxy"] # NoIdentity
    /\ dataDir.stored["Proxy"].ID.Role = "Proxy"

\* C27: with valid legacy files, whichever of the four files of a role are
\* present, migrateIdentity returns no error but that of a failed write
C27_MissingFileTolerated ==
    (/\ mrun >= 1
     /\ dataDir.valid
     /\ mpc.step \in {"Admin", "Proxy", "Node"})
    => mpc.err \in {"", "error"}

\* C28: a run of the migration after a run that succeeded returns no error
\* and changes neither the backend nor the data directory
C28_SecondRunNoOp ==
    [][mrun = 2 => (backend' = backend /\ dataDir' = dataDir /\ mpc'.err = "")]_vars

C28_Witness ==
    /\ mrun = 2
    /\ mpc = [step |-> "done", err |-> ""]
    /\ dataDir.stored["Admin"] # NoIdentity
    /\ dataDir.legacy["Admin"] = {}
    /\ "b" \in backend.remotes
    /\ backend.users["u1"].version = "v2"
    /\ <<"user:u1", <<"root">>>> \in backend.roles
    /\ backend.kube = "kube"

\* C29: no step of CreateOIDCAuthRequest or of ValidateOIDCAuthCallback
\* changes a certificate authority
C29_CAsUntouched == [][cas' = cas]_vars

C29_Witness ==
    /\ \E t \in Tokens : reqState[t] # "unused"
    /\ \E c \in Calls :
          /\ cpc[c] = "returned"
          /\ resp[c].hostSigners
          /\ wrote[c] = {"user", "session", "cert"}
    /\ cas[<<"a", "host">>] = LegacyCA("host", TRUE, TRUE)
    /\ cas[<<"a", "user">>] = LegacyCA("user", TRUE, TRUE)

\* C39: getClaims returns an error or a claim set that is not nil and has
\* every claim of the ID token
C39_ClaimsOrError ==
    cout.done =>
        \/ cout.err # "ok"
        \/ /\ cout.claims # NilClaims
           /\ \A k \in DOMAIN cin.id :
                 k \in DOMAIN cout.claims /\ cout.claims[k] = cin.id[k]

\* C40: an Init that has returned holds no bootstrap lock, whether it returned
\* a server or an error, and a lock is held only by an Init between its
\* AcquireLock and its return; an Init whose AcquireLock fails returns an
\* error and has changed nothing in the backend.
C40_LockReleased ==
    /\ [](\A p \in Procs, n \in Names : lockHolder[n] = p => InBootstrap(p))
    /\ [](\A p \in Procs : Returned(p) => ret[p] # "pending")
    /\ [][\A p \in Procs :
            (pc[p] \in {"idle", "acquire"} /\ pc'[p] # pc[p]) =>
               /\ UNCHANGED <<storedName, clusterID, adminRole, cas>>
               /\ pc'[p] = "done" =>
                     (ret'[p] \notin {"pending", "server"} /\ UNCHANGED lockHolder)
         ]_vars

C40_Witness ==
    \E p, q \in Procs :
       /\ p # q
       /\ cfgName[p] = cfgName[q]
       /\ Returned(p) /\ ret[p] = "BackendError" /\ Len(migrated[p]) = 1
       /\ Returned(q) /\ ret[q] = "server"
       /\ \A n \in Names : lockHolder[n] = 0

\* C37: once an Init has returned a server, a cluster name is stored and the
\* User CA and the Host CA of that name are in the backend, each with an SSH
\* signing key and at least one TLS key pair, whatever earlier Init runs,
\* complete or failed, have left in the backend.
C37_LocalCAsComplete ==
    (\E p \in Procs : ret[p] = "server") =>
       /\ storedName # ""
       /\ \A t \in CATypes :
             /\ LocalCA(t) # NoCA
             /\ LocalCA(t).ssh # NoKey
             /\ Len(LocalCA(t).tls) >= 1

C37_Witness ==
    \E p, q \in Procs :
       /\ Returned(q) /\ fault[q] /\ migrated[q] = <<>>
       /\ Returned(p) /\ ret[p] = "server"
       /\ LocalCA("user").ssh = LegacyKey("user")
       /\ LocalCA("user").tls = <<FreshKey(q, "user-tls")>>
       /\ LocalCA("host").tls = <<LegacyKey("host")>>

C31_ACRChecked ==
    /\ [][\A c \in Calls :
            (cpc[c] = "acr" /\ cpc'[c] # "acr") =>
               LET v == claims[c]
                   satisfied ==
                       /\ HasClaim(v, "acr")
                       /\ IF connector.provider = "netiq"
                          THEN /\ v["acr"].kind = "object"
                               /\ v["acr"].values.kind = "list"
                               /\ \E i \in DOMAIN v["acr"].values.list :
                                     v["acr"].values.list[i] =
                                        [isString |-> TRUE, text |-> connector.acr]
                          ELSE /\ v["acr"].kind = "string"
                               /\ v["acr"].str = connector.acr
               IN  /\ cpc'[c] = "identity" <=> (connector.acr = "" \/ satisfied)
                   /\ cpc'[c] # "identity" =>
                         /\ cpc'[c] = "audit"
                         /\ cres'[c] = <<"acr", "BadParameter">>
                         /\ UNCHANGED <<users, sessions, certs, wrote>>
         ]_vars
    /\ [](\A c \in Calls :
            (cres[c][1] = "acr" \/ cpc[c] \in {"getClaims", "extractClaims", "acr"})
               => wrote[c] = {})

C31_Witness ==
    \E c, d \in Calls :
       /\ connector.provider = "netiq"
       /\ cres[c] = <<"acr", "BadParameter">> /\ cpc[c] = "returned"
       /\ cres[d][2] = "ok" /\ wrote[d] = {"user", "session", "cert"}

\* C34: when the claims of a callback map to no role, createOIDCUser fails
\* with AccessDenied in its first step, before the user is read or written;
\* the callback returns that error, has written nothing and has no session
\* and no certificate.
C34_NoRolesDenied ==
    /\ [][\A c \in Calls :
            (/\ cpc[c] = "createUserRoles"
             /\ buildOIDCRoles(claims[c]) = {}
             /\ cpc'[c] # cpc[c]) =>
               /\ cpc'[c] = "audit"
               /\ cres'[c] = <<"createUserRoles", "AccessDenied">>
               /\ UNCHANGED <<users, sessions, certs, wrote>>
         ]_vars
    /\ [](\A c \in Calls :
            /\ cpc[c] = "createUserRoles" => wrote[c] = {}
            /\ cpc[c] \in {"getUser", "upsertUser"} => cres[c][2] = "pending"
            /\ cres[c] = <<"createUserRoles", "AccessDenied">> =>
                  /\ wrote[c] = {}
                  /\ resp[c] = NoResp
                  /\ \A e \in Emails : <<c, e>> \notin sessions \cup certs)

C34_Witness ==
    \E c, d \in Calls :
       /\ cres[c] = <<"createUserRoles", "AccessDenied">>
       /\ cpc[c] = "returned"
       /\ users["bar@example.com"] = "absent"
       /\ cres[d][2] = "ok" /\ "user" \in wrote[d]

\* C38: while local users are created concurrently, provisioning never
\* replaces a user record without connector reference by the user of the
\* connector.
C38_LocalUserNotOverwritten ==
    [][\A e \in Emails : users[e] = "local" => users'[e] # "connector"]_vars

\* C35: a web session expires no later than the federated identity and no
\* later than the roles allow, counted from its creation; its bearer token
\* expires no later than the session and no later than BearerTokenTTL after
\* the creation.
C35_SessionExpiryCapped ==
    tsess.done =>
       /\ tsess.expires <= tident
       /\ tsess.expires <= tsess.at + tsess.roleMax
       /\ tsess.bearer <= tsess.expires
       /\ tsess.bearer <= tsess.at + BearerTokenTTL

\* an identity with one unit of lifetime left caps the session and its
\* bearer token below the limit of the roles and below BearerTokenTTL
C35_Witness ==
    /\ tsess.done
    /\ tsess.roleMax = MaxTTL
    /\ tident - tsess.at = 1
    /\ tsess.expires = tident
    /\ tsess.bearer = tident

\* C32: a CreateOIDCAuthRequest that succeeds returns a request with a state
\* token no persisted request has and a redirect URL built with that token,
\* with the parameter acr_values (the connector's ACR value) exactly when
\* the connector sets one, and has persisted that request with the fixed
\* TTL; a CreateOIDCAuthRequest that fails, at the write of the request or
\* before, returns no request and has persisted none.
C32_AuthRequestIssued ==
    [][aout'.fn = "CreateOIDCAuthRequest" =>
          IF aout'.err = "ok"
          THEN /\ aout'.req.StateToken \in Tokens
               /\ \A a \in authRequests : a.req.StateToken # aout'.req.StateToken
               /\ aout'.req.RedirectURL.state = aout'.req.StateToken
               /\ aout'.req.RedirectURL.access_type = "online"
               /\ aout'.req.RedirectURL.prompt = "select_account"
               /\ aout'.req.RedirectURL.acr_values =
                     (IF aout'.conn.acr = "" THEN <<>> ELSE <<aout'.conn.acr>>)
               /\ authRequests' =
                     authRequests \cup {[req |-> aout'.req, ttl |-> OIDCAuthRequestTTL]}
          ELSE /\ aout'.req = NoCall.req
               /\ authRequests' = authRequests
      ]_vars

C32_Witness ==
    /\ aout.fn = "CreateOIDCAuthRequest"
    /\ aout.err = "ok"
    /\ aout.conn.acr = "loa2"
    /\ aout.req.RedirectURL.acr_values = <<"loa2">>
    /\ \E a, b \in authRequests :
          /\ a.req.StateToken # b.req.StateToken
          /\ a.req.RedirectURL.acr_values = <<>>
          /\ b.req = aout.req

\* C33: the client cache has one entry per connector name at most, and the
\* client of an entry was built from the configuration stored with it. A
\* getOIDCClient whose connector derives the configuration of the cached
\* entry (redirect URL, credentials, and openid, email and the connector's
\* scope as a set) returns the cached client and builds none; with another
\* configuration or no entry it builds a client, caches it under the name in
\* place of the old entry and returns it; when the build fails it returns
\* an error and the name has no entry. The entries of other names stay.
C33_ClientCache ==
    /\ [](\A k \in DOMAIN oidcClients :
            /\ oidcClients[k].client.config = oidcClients[k].config
            /\ oidcClients[k].client.id \in 1..built)
    /\ [][aout'.fn = "getOIDCClient" =>
            LET conn == aout'.conn
                range(q) == {q[i] : i \in DOMAIN q}
                derived(c) ==
                    /\ c.RedirectURL = conn.redirect
                    /\ c.ID = conn.id
                    /\ c.Secret = conn.secret
                    /\ range(c.Scope) = {"openid", "email"} \cup range(conn.scope)
                hit == /\ conn.name \in DOMAIN oidcClients
                       /\ derived(oidcClients[conn.name].config)
            IN  /\ hit =>
                      /\ aout'.err = "ok"
                      /\ aout'.client = oidcClients[conn.name].client
                      /\ UNCHANGED <<oidcClients, built>>
                /\ (~hit /\ aout'.err = "ok") =>
                      /\ built' = built + 1
                      /\ aout'.client.id = built'
                      /\ derived(aout'.client.config)
                      /\ conn.name \in DOMAIN oidcClients'
                      /\ oidcClients'[conn.name].client = aout'.client
                /\ aout'.err # "ok" =>
                      /\ conn.name \notin DOMAIN oidcClients'
                      /\ aout'.client = NoOIDCClient
                      /\ built' = built
                /\ DOMAIN oidcClients' \subseteq DOMAIN oidcClients \cup {conn.name}
                /\ \A k \in DOMAIN oidcClients \ {conn.name} :
                      k \in DOMAIN oidcClients' /\ oidcClients'[k] = oidcClients[k]
         ]_vars

\* the client of "c1" was replaced after its connector changed, the client
\* of "c2" is still cached, and the last call returned the cached client of
\* "c1" for a connector that names the scope email again
C33_Witness ==
    /\ aout.fn = "getOIDCClient"
    /\ aout.err = "ok"
    /\ aout.conn.name = "c1"
    /\ aout.conn.scope = <<"email">>
    /\ built = 3
    /\ DOMAIN oidcClients = {"c1", "c2"}
    /\ oidcClients["c2"].client.id = 2
    /\ oidcClients["c1"].client.id = 3
    /\ aout.client.id = 3
    /\ aout.client.config.Secret = "s2"
====
